---- MODULE Spec2Model ----
(***************************************************************************)
(* Model of the credential resolver of taws (src/src/aws/credentials.rs):  *)
(* the source chain of load_credentials, the INI parser, and the IMDSv2    *)
(* fetch with its process-wide, mutex-guarded credential cache.            *)
(*                                                                         *)
(* A Rust String is a sequence of tokens: a token is one character of      *)
(* interest ("[", "]", "=", " ", "\t", "#", ";") or a word, which stands   *)
(* for a run of characters holding none of those.  Option<T> is the empty  *)
(* sequence (None) or a one-element sequence (Some).  Result<T> is a       *)
(* record with the field ok.  Time is in seconds; the wall clock           *)
(* (Utc::now) and the monotonic clock (Instant::now) advance together and  *)
(* are one variable, now.                                                  *)
(***************************************************************************)
EXTENDS Integers, Sequences, FiniteSets, TLC

\* ------------------------------------------------------------------ bounds
MaxCalls == 3
MaxNow == 600
TickStep == 300
MaxLines == 3
MaxPages == 3
MaxPageNumber == 4

\* --------------------------------------------------------- program constants
IMDS_TOKEN_TTL == 21600
IMDS_REFRESH_BUFFER == 300
DEFAULT_VALIDITY == 3600

\* ------------------------------------------------------------ Option, Result
None == << >>
Some(v) == << v >>
IsSome(o) == Len(o) = 1
Unwrap(o) == o[1]

Ok(v) == [ok |-> TRUE, val |-> v]
Err(e) == [ok |-> FALSE, err |-> e]

\* ------------------------------------------------------------------ strings
IsWhitespace(c) == c \in {" ", "\t", "\n"}

RECURSIVE TrimStart(_)
TrimStart(s) ==
    IF s # << >> /\ IsWhitespace(Head(s)) THEN TrimStart(Tail(s)) ELSE s

RECURSIVE TrimEnd(_)
TrimEnd(s) ==
    IF s # << >> /\ IsWhitespace(s[Len(s)])
    THEN TrimEnd(SubSeq(s, 1, Len(s) - 1))
    ELSE s

Trim(s) == TrimEnd(TrimStart(s))

StartsWith(s, p) == Len(s) >= Len(p) /\ SubSeq(s, 1, Len(p)) = p
EndsWith(s, p) == Len(s) >= Len(p) /\ SubSeq(s, Len(s) - Len(p) + 1, Len(s)) = p

\* str::split_once('='): the text before and after the first '=', or None.
RECURSIVE FirstIndex(_, _, _)
FirstIndex(s, c, i) ==
    IF i > Len(s) THEN 0
    ELSE IF s[i] = c THEN i
    ELSE FirstIndex(s, c, i + 1)

\* SplitOnce at the last occurrence (str::rsplit_once).
SplitOnce_Last(s, c) ==
    LET at == { i \in 1 .. Len(s) : s[i] = c }
        i == IF at = { } THEN 0 ELSE CHOOSE k \in at : \A j \in at : j <= k
    IN  IF i = 0 THEN None
        ELSE Some(<< SubSeq(s, 1, i - 1), SubSeq(s, i + 1, Len(s)) >>)

SplitOnce(s, c) ==
    LET i == FirstIndex(s, c, 1)
    IN  IF i = 0 THEN None
        ELSE Some(<< SubSeq(s, 1, i - 1), SubSeq(s, i + 1, Len(s)) >>)

\* --------------------------------------------------------------- Credentials
Credentials(ak, sk, tok) ==
    [access_key_id |-> ak, secret_access_key |-> sk, session_token |-> tok]

\* ------------------------------------------------------------ parse_ini_file
\* HashMap::get as an Option.
MapGet(m, k) == IF k \in DOMAIN m THEN Some(m[k]) ELSE None
\* HashMap::insert (overwrites).
MapInsert(m, k, v) == [x \in DOMAIN m \cup {k} |-> IF x = k THEN v ELSE m[x]]
\* HashMap::entry(k).or_default() for a map of maps.
EntryOrDefault(m, k) == IF k \in DOMAIN m THEN m ELSE MapInsert(m, k, << >>)

PROFILE_PREFIX == << "profile", " " >>

\* SectionName with the "profile " prefix kept.
SectionName_KeepPrefix(line) == Trim(SubSeq(line, 2, Len(line) - 1))

SectionName(line) ==
    LET inner == Trim(SubSeq(line, 2, Len(line) - 1))
    IN  IF StartsWith(inner, PROFILE_PREFIX)
        THEN SubSeq(inner, Len(PROFILE_PREFIX) + 1, Len(inner))
        ELSE inner

\* IniLine without the test that a section has begun.
IniLine_NoSectionCheck(st, rawLine) ==
    LET line == Trim(rawLine)
    IN  IF line = << >> \/ StartsWith(line, << "#" >>) \/ StartsWith(line, << ";" >>)
        THEN st
        ELSE IF StartsWith(line, << "[" >>) /\ EndsWith(line, << "]" >>)
        THEN LET name == SectionName(line)
             IN  [sections |-> EntryOrDefault(st.sections, name),
                  current_section |-> name]
        ELSE LET kv == SplitOnce(line, "=")
             IN  IF IsSome(kv)
                 THEN LET secs == EntryOrDefault(st.sections, st.current_section)
                      IN  [st EXCEPT !.sections =
                              MapInsert(secs, st.current_section,
                                  MapInsert(secs[st.current_section],
                                            Trim(Unwrap(kv)[1]),
                                            Trim(Unwrap(kv)[2])))]
                 ELSE st

\* One iteration of the loop over content.lines(); st is
\* [sections, current_section].
IniLine(st, rawLine) ==
    LET line == Trim(rawLine)
    IN  IF line = << >> \/ StartsWith(line, << "#" >>) \/ StartsWith(line, << ";" >>)
        THEN st
        ELSE IF StartsWith(line, << "[" >>) /\ EndsWith(line, << "]" >>)
        THEN LET name == SectionName(line)
             IN  [sections |-> EntryOrDefault(st.sections, name),
                  current_section |-> name]
        ELSE LET kv == SplitOnce(line, "=")
             IN  IF IsSome(kv) /\ st.current_section # << >>
                 THEN LET secs == EntryOrDefault(st.sections, st.current_section)
                      IN  [st EXCEPT !.sections =
                              MapInsert(secs, st.current_section,
                                  MapInsert(secs[st.current_section],
                                            Trim(Unwrap(kv)[1]),
                                            Trim(Unwrap(kv)[2])))]
                 ELSE st

RECURSIVE IniFold(_, _)
IniFold(st, lines) ==
    IF lines = << >> THEN st ELSE IniFold(IniLine(st, Head(lines)), Tail(lines))

parse_ini_file(content) ==
    IniFold([sections |-> << >>, current_section |-> << >>], content).sections

\* ------------------------------------------------------- the process's world
VARIABLES
    env,        \* environment variables: name -> String
    home,       \* dirs::home_dir(): Option<path>, a path is a sequence of components
    fs,         \* readable files: path -> content, a content is a sequence of lines
    now,        \* the clock
    cache,      \* IMDS_CACHE: Option<[credentials, expiration]>
    lock,       \* the cache mutex: 0 when free, else the caller holding it
    pc,         \* per caller: its position in load_credentials
    profile,    \* per caller: the argument of load_credentials
    consulted,  \* per caller: the sources called so far, each with its result
    reqs,       \* per caller: the IMDS requests sent in this call
    resps,      \* per caller: the IMDS responses received in this call
    fetched,    \* per caller: Option<[credentials, expiration, at]> parsed from the document
    result,     \* per caller: Option<Result<Credentials>> returned by load_credentials
    calls,      \* number of load_credentials calls made
    lastWrite,  \* the last write to the cache: Option<[by, credentials, expiration]>
    startup     \* the environment, home and files the process started with

\* A run of parse_ini_file over a config file, line by line.
VARIABLE
    ini         \* [content, pos, sections, current_section, previous, profile, loaded]

\* The terminal application.
VARIABLES
    app,        \* the App: [mode, readonly, items, selected, pending_action,
                \*           warning_message, error_message, pagination]
    aws,        \* the listing the service holds: [pages]
    executed,   \* the execute_action calls made: a set of [service, sdk_method, resource_id]
    op          \* the last operation on the listing: what it was and what was shown before it

appVars == << app, aws, executed, op >>

\* The functions looked at on their own.
VARIABLES
    dispatched, \* the last execute_action call: [call, result, sent], or None
    extracted,  \* the last list extraction: [helper, elements, json, list], or None
    tail        \* the log tail: [state, clock, calls, requests, received, keys, last]

aside == << dispatched, extracted, tail >>

vars == << env, home, fs, now, cache, lock, pc, profile, consulted, reqs, resps,
           fetched, result, calls, lastWrite, startup, ini, appVars, aside >>

\* What load_credentials leaves alone.
outside == << ini, appVars, aside >>

\* The threads that may be inside load_credentials at once.
Callers == {1, 2}

\* std::env::var
\* An environment value is an OsString; the token "0xFF" stands for a byte
\* sequence that is not valid Unicode.
IsUnicode(v) == \A i \in 1 .. Len(v) : v[i] # "0xFF"

\* std::env::var: NotPresent for an unset variable, NotUnicode for a value
\* that does not convert to a String.
EnvVar(e, name) ==
    IF name \notin DOMAIN e THEN Err("NotPresent")
    ELSE IF ~IsUnicode(e[name]) THEN Err("NotUnicode")
    ELSE Ok(e[name])

Error(msg, p) == [msg |-> msg, profile |-> p]

\* load_from_env with the session token required like the two keys.
load_from_env_TokenRequired(e) ==
    LET access_key_id == EnvVar(e, "AWS_ACCESS_KEY_ID")
        secret_access_key == EnvVar(e, "AWS_SECRET_ACCESS_KEY")
        session_token == EnvVar(e, "AWS_SESSION_TOKEN")
    IN  IF ~access_key_id.ok THEN Err(Error("AWS_ACCESS_KEY_ID not set", << >>))
        ELSE IF ~secret_access_key.ok
        THEN Err(Error("AWS_SECRET_ACCESS_KEY not set", << >>))
        ELSE IF ~session_token.ok
        THEN Err(Error("AWS_SESSION_TOKEN not set", << >>))
        ELSE Ok(Credentials(access_key_id.val, secret_access_key.val,
                            Some(session_token.val)))

load_from_env(e) ==
    LET access_key_id == EnvVar(e, "AWS_ACCESS_KEY_ID")
        secret_access_key == EnvVar(e, "AWS_SECRET_ACCESS_KEY")
        session_token == EnvVar(e, "AWS_SESSION_TOKEN")
    IN  IF ~access_key_id.ok THEN Err(Error("AWS_ACCESS_KEY_ID not set", << >>))
        ELSE IF ~secret_access_key.ok
        THEN Err(Error("AWS_SECRET_ACCESS_KEY not set", << >>))
        ELSE Ok(Credentials(access_key_id.val, secret_access_key.val,
                            IF session_token.ok THEN Some(session_token.val) ELSE None))

\* Path::parent: None for the empty path (and the root).
PathParent(path) == IF path = << >> THEN None ELSE Some(SubSeq(path, 1, Len(path) - 1))
PathJoin(dir, name) == Append(dir, name)

aws_config_dir(e, h) ==
    LET path == EnvVar(e, "AWS_CONFIG_FILE")
    IN  IF path.ok /\ IsSome(PathParent(path.val))
        THEN Ok(Unwrap(PathParent(path.val)))
        ELSE IF IsSome(h) THEN Ok(PathJoin(Unwrap(h), ".aws"))
        ELSE Err(Error("Could not find home directory", << >>))

\* fs::read_to_string
ReadToString(f, path) == IF path \in DOMAIN f THEN Ok(f[path]) ELSE Err("io")

AWS_ACCESS_KEY_ID_KEY == << "aws_access_key_id" >>
AWS_SECRET_ACCESS_KEY_KEY == << "aws_secret_access_key" >>
AWS_SESSION_TOKEN_KEY == << "aws_session_token" >>

load_from_credentials_file(e, h, f, p) ==
    LET dir == aws_config_dir(e, h)
    IN  IF ~dir.ok THEN dir
        ELSE
        LET content == ReadToString(f, PathJoin(dir.val, "credentials"))
        IN  IF ~content.ok THEN Err(Error("Could not read credentials", << >>))
            ELSE
            LET sections == parse_ini_file(content.val)
                section == MapGet(sections, p)
            IN  IF ~IsSome(section)
                THEN Err(Error("Profile not found in credentials file", p))
                ELSE IF ~IsSome(MapGet(Unwrap(section), AWS_ACCESS_KEY_ID_KEY))
                THEN Err(Error("aws_access_key_id not found for profile", p))
                ELSE IF ~IsSome(MapGet(Unwrap(section), AWS_SECRET_ACCESS_KEY_KEY))
                THEN Err(Error("aws_secret_access_key not found for profile", p))
                ELSE Ok(Credentials(Unwrap(section)[AWS_ACCESS_KEY_ID_KEY],
                                    Unwrap(section)[AWS_SECRET_ACCESS_KEY_KEY],
                                    MapGet(Unwrap(section), AWS_SESSION_TOKEN_KEY)))

load_from_config_file(e, h, f, p) ==
    LET dir == aws_config_dir(e, h)
    IN  IF ~dir.ok THEN dir
        ELSE
        LET content == ReadToString(f, PathJoin(dir.val, "config"))
        IN  IF ~content.ok THEN Err(Error("Could not read config", << >>))
            ELSE
            LET sections == parse_ini_file(content.val)
                section == MapGet(sections, p)
            IN  IF ~IsSome(section)
                THEN Err(Error("Profile not found in config file", p))
                ELSE IF /\ IsSome(MapGet(Unwrap(section), AWS_ACCESS_KEY_ID_KEY))
                        /\ IsSome(MapGet(Unwrap(section), AWS_SECRET_ACCESS_KEY_KEY))
                THEN Ok(Credentials(Unwrap(section)[AWS_ACCESS_KEY_ID_KEY],
                                    Unwrap(section)[AWS_SECRET_ACCESS_KEY_KEY],
                                    MapGet(Unwrap(section), AWS_SESSION_TOKEN_KEY)))
                ELSE Err(Error("No direct credentials found in config for profile", p))

\* ------------------------------------------------------------------- IMDSv2
\* An HTTP exchange as reqwest reports it: send() fails (connect error,
\* timeout) or yields a status; the body is read afterwards (text(), json()).
Response(send, status, body) == [send |-> send, status |-> status, body |-> body]
\* is_success taken to mean "no server error".
IsSuccess_Below500(status) == status >= 200 /\ status <= 499

\* StatusCode::is_success, as used at lines 321, 344 and 375.
IsSuccess(status) == status >= 200 /\ status <= 299

Request(method, url, header) == [method |-> method, url |-> url, header |-> header]
Header(name, value) == [name |-> name, value |-> value]

TokenRequest ==
    Request("PUT", << "latest", "api", "token" >>,
            Header("X-aws-ec2-metadata-token-ttl-seconds", << IMDS_TOKEN_TTL >>))

RoleRequest(token) ==
    Request("GET", << "latest", "meta-data", "iam", "security-credentials", << >> >>,
            Header("X-aws-ec2-metadata-token", token))

CredsRequest(token, role_name) ==
    Request("GET", << "latest", "meta-data", "iam", "security-credentials", role_name >>,
            Header("X-aws-ec2-metadata-token", token))

\* A JSON value of the credential document.
JStr(s) == [type |-> "string", s |-> s]
JNum == [type |-> "number", s |-> << >>]
\* doc.get(field).and_then(|v| v.as_str())
GetStr(doc, field) ==
    IF field \in DOMAIN doc /\ doc[field].type = "string" THEN Some(doc[field].s) ELSE None

\* DateTime<Utc>::from_str on the timestamps the metadata service is taken to
\* send: seconds since the start of the clock.
Timestamps ==
    [x \in {<< "1970-01-01T00:07:00Z" >>, << "1970-01-01T00:10:00Z" >>,
            << "1970-01-01T00:15:00Z" >>} |->
        CASE x = << "1970-01-01T00:07:00Z" >> -> 420
          [] x = << "1970-01-01T00:10:00Z" >> -> 600
          [] x = << "1970-01-01T00:15:00Z" >> -> 900]
ParseDateTime(s) == IF s \in DOMAIN Timestamps THEN Some(Timestamps[s]) ELSE None

\* parse_expiration with an expiration equal to the present taken as valid.
parse_expiration_AcceptNow(exp_str, clock) ==
    LET expiration_time == ParseDateTime(exp_str)
    IN  IF ~IsSome(expiration_time) THEN None
        ELSE IF Unwrap(expiration_time) < clock THEN None
        ELSE Some(clock + (Unwrap(expiration_time) - clock))

parse_expiration(exp_str, clock) ==
    LET expiration_time == ParseDateTime(exp_str)
    IN  IF ~IsSome(expiration_time) THEN None
        ELSE IF Unwrap(expiration_time) <= clock THEN None
        ELSE LET duration_until_expiration == Unwrap(expiration_time) - clock
             IN  Some(clock + duration_until_expiration)

\* The expiration computed at lines 405-415.
Expiration(doc, clock) ==
    LET exp_str == GetStr(doc, "Expiration")
    IN  IF IsSome(exp_str)
        THEN LET parsed == parse_expiration(Unwrap(exp_str), clock)
             IN  IF IsSome(parsed) THEN Unwrap(parsed) ELSE clock + DEFAULT_VALIDITY
        ELSE clock + DEFAULT_VALIDITY

\* Lines 387-421: the document to Result<[credentials, expiration, at]>.
ParseDocument(doc, clock) ==
    LET access_key_id == GetStr(doc, "AccessKeyId")
        secret_access_key == GetStr(doc, "SecretAccessKey")
        session_token == GetStr(doc, "Token")
    IN  IF ~IsSome(access_key_id)
        THEN Err(Error("AccessKeyId not found in IMDS response", << >>))
        ELSE IF ~IsSome(secret_access_key)
        THEN Err(Error("SecretAccessKey not found in IMDS response", << >>))
        ELSE Ok([credentials |-> Credentials(Unwrap(access_key_id),
                                             Unwrap(secret_access_key), session_token),
                 expiration |-> Expiration(doc, clock),
                 at |-> clock])

\* CacheFresh with the boundary counted as fresh.
CacheFresh_Inclusive(c, clock) ==
    IsSome(c) /\ Unwrap(c).expiration >= clock + IMDS_REFRESH_BUFFER

\* Line 287: the cached entry is fresh.
CacheFresh(c, clock) ==
    IsSome(c) /\ Unwrap(c).expiration > clock + IMDS_REFRESH_BUFFER

CachedImdsCredentials(credentials, expiration) ==
    [credentials |-> credentials, expiration |-> expiration]

\* StoreInCache refreshing the credentials of an existing entry in place.
StoreInCache_KeepExpiration(old, credentials, expiration) ==
    IF IsSome(old)
    THEN Some(CachedImdsCredentials(credentials, Unwrap(old).expiration))
    ELSE Some(CachedImdsCredentials(credentials, expiration))

\* StoreInCache writing only into an empty cache.
StoreInCache_FirstWriterWins(old, credentials, expiration) ==
    IF IsSome(old) THEN old ELSE Some(CachedImdsCredentials(credentials, expiration))

\* StoreInCache keeping whichever entry expires later.
StoreInCache_KeepLaterExpiry(old, credentials, expiration) ==
    IF IsSome(old) /\ Unwrap(old).expiration > expiration
    THEN old
    ELSE Some(CachedImdsCredentials(credentials, expiration))

\* Lines 423-429: the value the guarded Option holds after the write.
StoreInCache(old, credentials, expiration) ==
    Some(CachedImdsCredentials(credentials, expiration))

\* ------------------------------------------------- what the model ranges over
DEFAULT == << "default" >>
Profiles == { DEFAULT, << "dev" >> }

\* The environments a run starts in.
EnvNone == [x \in {} |-> << >>]
EnvBoth ==
    [AWS_ACCESS_KEY_ID |-> << "AKenv" >>, AWS_SECRET_ACCESS_KEY |-> << "SKenv" >>]
EnvBothToken ==
    [AWS_ACCESS_KEY_ID |-> << "AKenv" >>, AWS_SECRET_ACCESS_KEY |-> << "SKenv" >>,
     AWS_SESSION_TOKEN |-> << "STenv" >>]
EnvKeyOnly == [AWS_ACCESS_KEY_ID |-> << "AKenv" >>]
EnvSecretOnly == [AWS_SECRET_ACCESS_KEY |-> << "SKenv" >>]
EnvConfigFile == [AWS_CONFIG_FILE |-> << "alt", "config" >>]
EnvNotUnicode ==
    [AWS_ACCESS_KEY_ID |-> << "AK", "0xFF" >>, AWS_SECRET_ACCESS_KEY |-> << "SKenv" >>]

\* The files a run starts with.
CredentialsBoth ==
    << << "[", "default", "]" >>,
       << "aws_access_key_id", " ", "=", " ", "AKcred" >>,
       << "aws_secret_access_key", "=", "SKcred" >>,
       << >>,
       << "#", " ", "work" >>,
       << "[", "dev", "]" >>,
       << "aws_access_key_id", "=", "AKdev" >>,
       << "aws_secret_access_key", "=", "SKdev" >>,
       << "aws_session_token", "=", "STdev" >> >>
CredentialsPartial ==
    << << "[", "default", "]" >>,
       << "aws_access_key_id", "=", "AKcred" >>,
       << "[", "dev", "]" >>,
       << "aws_secret_access_key", "=", "SKdev" >> >>
ConfigDev ==
    << << "[", "default", "]" >>,
       << "region", " ", "=", " ", "us-east-1" >>,
       << "[", "profile", " ", "dev", "]" >>,
       << "region", " ", "=", " ", "us-west-2" >>,
       << "aws_access_key_id", " ", "=", " ", "X" >>,
       << "aws_secret_access_key", " ", "=", " ", "Y" >> >>
ConfigDefault ==
    << << "[", "default", "]" >>,
       << "aws_access_key_id", "=", "AKconf" >>,
       << "aws_secret_access_key", "=", "SKconf" >> >>

HomeDir == << "home" >>
HomeAws == << "home", ".aws" >>
AltDir == << "alt" >>

\* A file system holding, in dir, the given credentials and config files
\* (None: the file cannot be read).
FileSystem(dir, credentials, config) ==
    [path \in (IF IsSome(credentials) THEN {PathJoin(dir, "credentials")} ELSE {})
              \cup (IF IsSome(config) THEN {PathJoin(dir, "config")} ELSE {}) |->
        IF path = PathJoin(dir, "credentials") THEN Unwrap(credentials)
        ELSE Unwrap(config)]

World(e, h, f) == [env |-> e, home |-> h, fs |-> f]

Worlds ==
    { World(EnvNone, Some(HomeDir), FileSystem(HomeAws, None, None)),
      World(EnvNone, Some(HomeDir), FileSystem(HomeAws, Some(CredentialsBoth), None)),
      World(EnvBoth, Some(HomeDir),
            FileSystem(HomeAws, Some(CredentialsBoth), Some(ConfigDev))),
      World(EnvKeyOnly, Some(HomeDir),
            FileSystem(HomeAws, Some(CredentialsPartial), Some(ConfigDev))),
      World(EnvBothToken, Some(HomeDir),
            FileSystem(HomeAws, Some(CredentialsPartial), Some(ConfigDefault))),
      World(EnvSecretOnly, Some(HomeDir), FileSystem(HomeAws, None, Some(ConfigDefault))),
      World(EnvConfigFile, Some(HomeDir), FileSystem(AltDir, Some(CredentialsBoth), None)),
      World(EnvNotUnicode, Some(HomeDir), FileSystem(HomeAws, Some(CredentialsBoth), None)),
      World(EnvNone, None, FileSystem(HomeAws, Some(CredentialsBoth), Some(ConfigDev))) }

\* What the metadata service may answer.
\* The service issues a session token of its own to every caller.
TokenFor(t) == IF t = 1 THEN << "tokA" >> ELSE << "tokB" >>
TokenResponses(t) ==
    { Response("err", 0, Err("io")),
      Response("ok", 403, Ok(<< "Forbidden" >>)),
      Response("ok", 200, Err("io")),
      Response("ok", 200, Ok(TokenFor(t))) }

RoleResponses ==
    { Response("err", 0, Err("io")),
      Response("ok", 404, Ok(<< "Not Found" >>)),
      Response("ok", 200, Err("io")),
      Response("ok", 200, Ok(<< >>)),
      Response("ok", 200, Ok(<< " ", "\n" >>)),
      Response("ok", 200, Ok(<< "role", "\n" >>)) }

Document(v, expiration) ==
    [x \in {"AccessKeyId", "SecretAccessKey", "Token"}
           \cup (IF IsSome(expiration) THEN {"Expiration"} ELSE {}) |->
        CASE x = "AccessKeyId" -> JStr(<< "ASIA", v >>)
          [] x = "SecretAccessKey" -> JStr(<< "secret", v >>)
          [] x = "Token" -> JStr(<< "session", v >>)
          [] x = "Expiration" -> Unwrap(expiration)]

Without(doc, field) == [x \in DOMAIN doc \ {field} |-> doc[x]]

Documents ==
    { Document("1", None),
      Document("1", Some(JStr(<< "tomorrow" >>))),
      Document("1", Some(JStr(<< "1970-01-01T00:07:00Z" >>))),
      Document("1", Some(JStr(<< "1970-01-01T00:15:00Z" >>))),
      Document("2", Some(JNum)),
      Document("2", Some(JStr(<< "1970-01-01T00:10:00Z" >>))),
      Document("2", Some(JStr(<< "1970-01-01T00:15:00Z" >>))),
      Without(Document("2", None), "AccessKeyId"),
      Without(Document("2", None), "SecretAccessKey"),
      Without(Document("1", Some(JStr(<< "1970-01-01T00:15:00Z" >>))), "Token") }

CredsResponses ==
    { Response("err", 0, Err("io")),
      Response("ok", 500, Ok(<< >>)),
      Response("ok", 200, Err("json")) }
    \cup { Response("ok", 200, Ok(doc)) : doc \in Documents }

\* -------------------------------------------------------------------- state
\* parse_ini_file about to read `content`.
IniStart(content) ==
    [content |-> content, pos |-> 0, sections |-> << >>, current_section |-> << >>,
     previous |-> [sections |-> << >>, current_section |-> << >>],
     profile |-> << >>, loaded |-> None]

\* PaginationState::default()
PaginationDefault ==
    [next_token |-> None, token_stack |-> << >>, current_page |-> 1, has_more |-> FALSE]

\* App::from_initialized
AppStart(readonly, initial_items) ==
    [mode |-> "Normal", readonly |-> readonly, items |-> initial_items, selected |-> 0,
     pending_action |-> None, warning_message |-> None, error_message |-> None,
     pagination |-> PaginationDefault,
     current_resource_key |-> "ec2-instances", filtered_items |-> initial_items,
     filter_text |-> << >>, filter_active |-> FALSE,
     parent_context |-> None, navigation_stack |-> << >>,
     region |-> "us-east-1", loading |-> FALSE]

NoOp ==
    [name |-> "none", ok |-> TRUE, displayed |-> 0, current_page |-> 1, paging |-> FALSE,
     sent |-> None, call |-> None, from |-> None]

\* The application not looked at: started, no key pressed.
NoApp ==
    /\ app = AppStart(FALSE, << >>)
    /\ aws = [pages |-> 1]
    /\ executed = { }
    /\ op = NoOp

\* No function looked at on its own, no log tailed.
NoTail ==
    [state |-> None, clock |-> 0, calls |-> 0, requests |-> 0, received |-> 0, keys |-> 0,
     request |-> None, last |-> "none"]
NoAside ==
    /\ dispatched = None
    /\ extracted = None
    /\ tail = NoTail

\* No call of load_credentials made yet.
NoCalls ==
    /\ now = 0
    /\ cache = None
    /\ lock = 0
    /\ pc = [t \in Callers |-> "idle"]
    /\ profile = [t \in Callers |-> << >>]
    /\ consulted = [t \in Callers |-> << >>]
    /\ reqs = [t \in Callers |-> << >>]
    /\ resps = [t \in Callers |-> << >>]
    /\ fetched = [t \in Callers |-> None]
    /\ result = [t \in Callers |-> None]
    /\ calls = 0
    /\ lastWrite = None

Init ==
    /\ \E w \in Worlds : env = w.env /\ home = w.home /\ fs = w.fs /\ startup = w
    /\ NoAside
    /\ NoCalls
    /\ ini = IniStart(<< >>)
    /\ NoApp

Source(name, outcome) == [source |-> name, outcome |-> outcome]

\* NotFound with the profile name hard-wired.
NotFound_Default(p) == Err(Error("No credentials found for profile", << "default" >>))

\* Line 79: the error load_credentials returns.
NotFound(p) == Err(Error("No credentials found for profile", p))

\* NextSource with the credentials file tried before the environment.
NextSource_CredentialsFirst(name, p) ==
    CASE name = "start" -> "credentials_file"
      [] name = "credentials_file" -> IF p = << "default" >> THEN "env" ELSE "config_file"
      [] name = "env" -> "config_file"
      [] name = "config_file" -> IF p = << "default" >> THEN "imds" ELSE "not_found"

\* NextSource with a failure of the credentials file ending the resolution
\* (the error propagated with `?`).
NextSource_AbortOnFileError(name, p) ==
    CASE name = "start" -> IF p = << "default" >> THEN "env" ELSE "credentials_file"
      [] name = "env" -> "credentials_file"
      [] name = "credentials_file" -> "not_found"
      [] name = "config_file" -> IF p = << "default" >> THEN "imds" ELSE "not_found"

\* NextSource with the environment tried for every profile.
NextSource_EnvForAll(name, p) ==
    CASE name = "start" -> "env"
      [] name = "env" -> "credentials_file"
      [] name = "credentials_file" -> "config_file"
      [] name = "config_file" -> IF p = << "default" >> THEN "imds" ELSE "not_found"

\* The position after source `name` of the chain failed for profile p
\* ("start": on entry), lines 46, 54, 63, 72.
NextSource(name, p) ==
    CASE name = "start" -> IF p = DEFAULT THEN "env" ELSE "credentials_file"
      [] name = "env" -> "credentials_file"
      [] name = "credentials_file" -> "config_file"
      [] name = "config_file" -> IF p = DEFAULT THEN "imds" ELSE "not_found"

\* The caller's state after a source of the chain answered `outcome`.
AfterSource(t, name, outcome) ==
    /\ consulted' = [consulted EXCEPT ![t] = Append(@, Source(name, outcome))]
    /\ IF outcome.ok
       THEN /\ pc' = [pc EXCEPT ![t] = "done"]
            /\ result' = [result EXCEPT ![t] = Some(Ok(outcome.val))]
       ELSE /\ pc' = [pc EXCEPT ![t] = NextSource(name, profile[t])]
            /\ UNCHANGED result

world == << env, home, fs, startup >>

\* ------------------------------------------------------------ load_credentials
\* A thread calls load_credentials(p).
Call(t, p) ==
    /\ pc[t] = "idle"
    /\ calls < MaxCalls
    /\ calls' = calls + 1
    /\ profile' = [profile EXCEPT ![t] = p]
    /\ pc' = [pc EXCEPT ![t] = NextSource("start", p)]
    /\ UNCHANGED << world, outside, now, cache, lock, consulted, reqs, resps, fetched,
                    result, lastWrite >>

\* TryEnv with the environment captured once, when the process started.
TryEnv_ReadAtStartup(t) ==
    /\ pc[t] = "env"
    /\ AfterSource(t, "env", load_from_env(startup.env))
    /\ UNCHANGED << world, outside, now, cache, lock, profile, reqs, resps, fetched, calls,
                    lastWrite >>

TryEnv(t) ==
    /\ pc[t] = "env"
    /\ AfterSource(t, "env", load_from_env(env))
    /\ UNCHANGED << world, outside, now, cache, lock, profile, reqs, resps, fetched, calls,
                    lastWrite >>

TryCredentialsFile(t) ==
    /\ pc[t] = "credentials_file"
    /\ AfterSource(t, "credentials_file",
                   load_from_credentials_file(env, home, fs, profile[t]))
    /\ UNCHANGED << world, outside, now, cache, lock, profile, reqs, resps, fetched, calls,
                    lastWrite >>

TryConfigFile(t) ==
    /\ pc[t] = "config_file"
    /\ AfterSource(t, "config_file", load_from_config_file(env, home, fs, profile[t]))
    /\ UNCHANGED << world, outside, now, cache, lock, profile, reqs, resps, fetched, calls,
                    lastWrite >>

\* Line 79, reached with no source left to try.
ReturnNotFound(t) ==
    /\ pc[t] = "not_found"
    /\ pc' = [pc EXCEPT ![t] = "done"]
    /\ result' = [result EXCEPT ![t] = Some(NotFound(profile[t]))]
    /\ UNCHANGED << world, outside, now, cache, lock, profile, consulted, reqs, resps,
                    fetched, calls, lastWrite >>

\* --------------------------------------------------------------- load_from_imds
\* Line 284: cache.lock().
ImdsLock(t) ==
    /\ pc[t] = "imds"
    /\ lock = 0
    /\ lock' = t
    /\ pc' = [pc EXCEPT ![t] = "cache_check"]
    /\ UNCHANGED << world, outside, now, cache, profile, consulted, reqs, resps, fetched,
                    result, calls, lastWrite >>

\* GuardAfterCheck with the guard kept across the refresh.
GuardKeptOnMiss(t, fresh) == IF fresh THEN 0 ELSE t

\* The mutex once the block of lines 284-292 is left, by the return of line
\* 289 (fresh) or at its end (not fresh): the guard is dropped either way.
GuardAfterCheck(t, fresh) == 0

\* Lines 285-292: read the entry under the lock.
ImdsCacheCheck(t) ==
    /\ pc[t] = "cache_check"
    /\ lock' = GuardAfterCheck(t, CacheFresh(cache, now))
    /\ IF CacheFresh(cache, now)
       THEN /\ consulted' = [consulted EXCEPT ![t] =
                                Append(@, Source("imds", Ok(Unwrap(cache).credentials)))]
            /\ result' = [result EXCEPT ![t] = Some(Ok(Unwrap(cache).credentials))]
            /\ pc' = [pc EXCEPT ![t] = "done"]
       ELSE /\ pc' = [pc EXCEPT ![t] = "token"]
            /\ UNCHANGED << consulted, result >>
    /\ UNCHANGED << world, outside, now, cache, profile, reqs, resps, fetched, calls, lastWrite >>

\* -------------------------------------------------------- fetch_imds_credentials
\* fetch_imds_credentials returns Err(e): load_from_imds propagates it and
\* load_credentials, with no source left, returns its own error.
FetchFailed(t, e) ==
    /\ consulted' = [consulted EXCEPT ![t] = Append(@, Source("imds", Err(e)))]
    /\ result' = [result EXCEPT ![t] = Some(NotFound(profile[t]))]
    /\ pc' = [pc EXCEPT ![t] = "done"]

Send(t, req, to) ==
    /\ reqs' = [reqs EXCEPT ![t] = Append(@, req)]
    /\ pc' = [pc EXCEPT ![t] = to]
    /\ UNCHANGED << world, outside, now, cache, lock, profile, consulted, resps, fetched,
                    result, calls, lastWrite >>

\* Lines 312-318.
SendTokenRequest(t) ==
    /\ pc[t] = "token"
    /\ Send(t, TokenRequest, "token_wait")

\* Lines 319-330.
RecvTokenResponse(t, r) ==
    /\ pc[t] = "token_wait"
    /\ resps' = [resps EXCEPT ![t] = Append(@, r)]
    /\ IF r.send # "ok"
       THEN FetchFailed(t, Error("Failed to get IMDS token (not running on EC2?)", << >>))
       ELSE IF ~IsSuccess(r.status)
       THEN FetchFailed(t, Error("IMDS token request failed with status", << >>))
       ELSE IF ~r.body.ok
       THEN FetchFailed(t, Error("Failed to read IMDS token", << >>))
       ELSE /\ pc' = [pc EXCEPT ![t] = "role"]
            /\ UNCHANGED << consulted, result >>
    /\ UNCHANGED << world, outside, now, cache, lock, profile, reqs, fetched, calls, lastWrite >>

\* The token and the role name fetch_imds_credentials holds once read.
TokenOf(t) == resps[t][1].body.val
RoleNameOf(t) == Trim(resps[t][2].body.val)

\* Lines 338-341.
SendRoleRequest(t) ==
    /\ pc[t] = "role"
    /\ Send(t, RoleRequest(TokenOf(t)), "role_wait")

\* Lines 342-359.
RecvRoleResponse(t, r) ==
    /\ pc[t] = "role_wait"
    /\ resps' = [resps EXCEPT ![t] = Append(@, r)]
    /\ IF r.send # "ok"
       THEN FetchFailed(t, Error("Failed to get IAM role", << >>))
       ELSE IF ~IsSuccess(r.status)
       THEN FetchFailed(t, Error("No IAM role attached to this EC2 instance (status)", << >>))
       ELSE IF ~r.body.ok
       THEN FetchFailed(t, Error("Failed to read IAM role name", << >>))
       ELSE IF Trim(r.body.val) = << >>
       THEN FetchFailed(t, Error("No IAM role attached to this EC2 instance", << >>))
       ELSE /\ pc' = [pc EXCEPT ![t] = "creds"]
            /\ UNCHANGED << consulted, result >>
    /\ UNCHANGED << world, outside, now, cache, lock, profile, reqs, fetched, calls, lastWrite >>

\* Lines 369-372.
SendCredsRequest(t) ==
    /\ pc[t] = "creds"
    /\ Send(t, CredsRequest(TokenOf(t), RoleNameOf(t)), "creds_wait")

\* Lines 373-421.
RecvCredsResponse(t, r) ==
    /\ pc[t] = "creds_wait"
    /\ resps' = [resps EXCEPT ![t] = Append(@, r)]
    /\ IF r.send # "ok"
       THEN FetchFailed(t, Error("Failed to get credentials", << >>)) /\ UNCHANGED fetched
       ELSE IF ~IsSuccess(r.status)
       THEN FetchFailed(t, Error("Failed to get credentials for role (status)", << >>))
            /\ UNCHANGED fetched
       ELSE IF ~r.body.ok
       THEN FetchFailed(t, Error("Failed to parse credentials JSON", << >>))
            /\ UNCHANGED fetched
       ELSE LET parsed == ParseDocument(r.body.val, now)
            IN  IF ~parsed.ok
                THEN FetchFailed(t, parsed.err) /\ UNCHANGED fetched
                ELSE /\ fetched' = [fetched EXCEPT ![t] = Some(parsed.val)]
                     /\ pc' = [pc EXCEPT ![t] = "store"]
                     /\ UNCHANGED << consulted, result >>
    /\ UNCHANGED << world, outside, now, cache, lock, profile, reqs, calls, lastWrite >>

\* Line 425: cache.lock().
StoreLock(t) ==
    /\ pc[t] = "store"
    /\ lock = 0
    /\ lock' = t
    /\ pc' = [pc EXCEPT ![t] = "store_locked"]
    /\ UNCHANGED << world, outside, now, cache, profile, consulted, reqs, resps, fetched,
                    result, calls, lastWrite >>

\* Lines 426-429: *guard = Some(..).
StoreWrite(t) ==
    /\ pc[t] = "store_locked"
    /\ cache' = StoreInCache(cache, Unwrap(fetched[t]).credentials,
                             Unwrap(fetched[t]).expiration)
    /\ lastWrite' = Some([by |-> t, credentials |-> Unwrap(fetched[t]).credentials,
                           expiration |-> Unwrap(fetched[t]).expiration])
    /\ pc' = [pc EXCEPT ![t] = "stored"]
    /\ UNCHANGED << world, outside, now, lock, profile, consulted, reqs, resps, fetched,
                    result, calls >>

\* Lines 434-436 and 295-297, 73-75: the guard is dropped and the credentials
\* are returned through load_from_imds to load_credentials' caller.
StoreUnlockReturn(t) ==
    /\ pc[t] = "stored"
    /\ lock' = 0
    /\ consulted' = [consulted EXCEPT ![t] =
                        Append(@, Source("imds", Ok(Unwrap(fetched[t]).credentials)))]
    /\ result' = [result EXCEPT ![t] = Some(Ok(Unwrap(fetched[t]).credentials))]
    /\ pc' = [pc EXCEPT ![t] = "done"]
    /\ UNCHANGED << world, outside, now, cache, profile, reqs, resps, fetched, calls, lastWrite >>

\* The caller takes the result; the call's locals are gone.
Finish(t) ==
    /\ pc[t] = "done"
    /\ pc' = [pc EXCEPT ![t] = "idle"]
    /\ profile' = [profile EXCEPT ![t] = << >>]
    /\ consulted' = [consulted EXCEPT ![t] = << >>]
    /\ reqs' = [reqs EXCEPT ![t] = << >>]
    /\ resps' = [resps EXCEPT ![t] = << >>]
    /\ fetched' = [fetched EXCEPT ![t] = None]
    /\ result' = [result EXCEPT ![t] = None]
    /\ UNCHANGED << world, outside, now, cache, lock, calls, lastWrite >>

\* Time passes.
Tick ==
    /\ now + TickStep <= MaxNow
    /\ now' = now + TickStep
    /\ UNCHANGED << world, outside, cache, lock, pc, profile, consulted, reqs, resps, fetched,
                    result, calls, lastWrite >>

Next ==
    \/ \E t \in Callers, p \in Profiles : Call(t, p)
    \/ \E t \in Callers : TryEnv(t)
    \/ \E t \in Callers : TryCredentialsFile(t)
    \/ \E t \in Callers : TryConfigFile(t)
    \/ \E t \in Callers : ReturnNotFound(t)
    \/ \E t \in Callers : ImdsLock(t)
    \/ \E t \in Callers : ImdsCacheCheck(t)
    \/ \E t \in Callers : SendTokenRequest(t)
    \/ \E t \in Callers : \E r \in TokenResponses(t) : RecvTokenResponse(t, r)
    \/ \E t \in Callers : SendRoleRequest(t)
    \/ \E t \in Callers, r \in RoleResponses : RecvRoleResponse(t, r)
    \/ \E t \in Callers : SendCredsRequest(t)
    \/ \E t \in Callers, r \in CredsResponses : RecvCredsResponse(t, r)
    \/ \E t \in Callers : StoreLock(t)
    \/ \E t \in Callers : StoreWrite(t)
    \/ \E t \in Callers : StoreUnlockReturn(t)
    \/ \E t \in Callers : Finish(t)
    \/ Tick

Spec == Init /\ [][Next]_vars

\* ---------------------------------------------------------- external edits
\* Between two calls the user changes the environment or the files: the
\* process finds itself in the world w.
ExternalEdit(w) ==
    /\ \A t \in Callers : pc[t] = "idle"
    /\ w # World(env, home, fs)
    /\ env' = w.env /\ home' = w.home /\ fs' = w.fs
    /\ UNCHANGED << startup, outside, now, cache, lock, pc, profile, consulted, reqs,
                    resps, fetched, result, calls, lastWrite >>

\* The calls made one after the other.
OneAtATime == \A t, u \in Callers : (pc[t] # "idle" /\ pc[u] # "idle") => t = u

NextReload ==
    \/ \E t \in Callers, p \in Profiles : Call(t, p) /\ OneAtATime'
    \/ \E t \in Callers : TryEnv(t)
    \/ \E t \in Callers : TryCredentialsFile(t)
    \/ \E t \in Callers : TryConfigFile(t)
    \/ \E t \in Callers : ReturnNotFound(t)
    \/ \E t \in Callers : ImdsLock(t)
    \/ \E t \in Callers : ImdsCacheCheck(t)
    \/ \E t \in Callers : SendTokenRequest(t)
    \/ \E t \in Callers : \E r \in TokenResponses(t) : RecvTokenResponse(t, r)
    \/ \E t \in Callers : SendRoleRequest(t)
    \/ \E t \in Callers, r \in RoleResponses : RecvRoleResponse(t, r)
    \/ \E t \in Callers : SendCredsRequest(t)
    \/ \E t \in Callers, r \in CredsResponses : RecvCredsResponse(t, r)
    \/ \E t \in Callers : StoreLock(t)
    \/ \E t \in Callers : StoreWrite(t)
    \/ \E t \in Callers : StoreUnlockReturn(t)
    \/ \E t \in Callers : Finish(t)
    \/ Tick
    \/ \E w \in Worlds : ExternalEdit(w)

SpecReload == Init /\ [][NextReload]_vars

\* -------------------------------------------------- parse_ini_file, by line
\* The lines a config file is made of.
HeaderProfileDev == << "[", "profile", " ", "dev", "]" >>
HeaderProfileDevSpaced == << " ", "[", " ", "profile", " ", "dev", " ", "]", " " >>
HeaderDev == << "[", "dev", "]" >>
HeaderEmpty == << "[", "]" >>
LineAccessKey == << "aws_access_key_id", " ", "=", " ", "X" >>
LineSecretKey == << "aws_secret_access_key", "=", "Y" >>
LineSessionToken == << "aws_session_token", "=", "T" >>
LineTwoEquals == << "\t", "k", " ", "=", " ", "a", "=", "b", " " >>
LineEmptyKey == << "=", "v" >>
LineNoEquals == << "novalue" >>
LineBlank == << " " >>
LineHash == << "#", " ", "c", "=", "d" >>
LineSemicolon == << ";", "x", "=", "y" >>

Lines ==
    { HeaderProfileDev, HeaderProfileDevSpaced, HeaderDev, HeaderEmpty, LineAccessKey,
      LineSecretKey, LineSessionToken, LineTwoEquals, LineEmptyKey, LineNoEquals,
      LineBlank, LineHash, LineSemicolon }

\* The files of at most MaxLines lines.
Contents == UNION { [1 .. n -> Lines] : n \in 0 .. MaxLines }

\* The process has ~/.aws/config with some content and nothing else.
InitIni ==
    /\ \E content \in Contents :
        /\ ini = IniStart(content)
        /\ fs = FileSystem(HomeAws, None, Some(content))
    /\ env = EnvNone
    /\ home = Some(HomeDir)
    /\ startup = World(env, home, fs)
    /\ NoCalls
    /\ NoApp
    /\ NoAside

credentialVars ==
    << world, now, cache, lock, pc, profile, consulted, reqs, resps, fetched, result,
       calls, lastWrite >>

\* One iteration of `for line in content.lines()`.
IniNextLine ==
    /\ ini.pos < Len(ini.content)
    /\ LET st == [sections |-> ini.sections, current_section |-> ini.current_section]
           after == IniLine(st, ini.content[ini.pos + 1])
       IN  ini' = [ini EXCEPT !.pos = ini.pos + 1,
                             !.previous = st,
                             !.sections = after.sections,
                             !.current_section = after.current_section]
    /\ UNCHANGED << credentialVars, appVars, aside >>

\* load_from_config_file(p) on the file.
IniLoadFromConfig(p) ==
    /\ ini.pos = Len(ini.content)
    /\ ini.loaded = None
    /\ ini' = [ini EXCEPT !.profile = p,
                          !.loaded = Some(load_from_config_file(env, home, fs, p))]
    /\ UNCHANGED << credentialVars, appVars, aside >>

NextIni ==
    \/ IniNextLine
    \/ \E p \in Profiles : IniLoadFromConfig(p)

SpecIni == InitIni /\ [][NextIni]_vars

\* ------------------------------------------------------------ the listing
\* The items of the k-th page of the listing; an item whose id field is
\* missing is shown with the id "-".
PageItems(resource_key, region, k) ==
    << [resource_key |-> resource_key, region |-> region, page |-> k, id |-> "i-1"],
       [resource_key |-> resource_key, region |-> region, page |-> k, id |-> "-"] >>

\* The token the service hands out for the k-th page of a listing; it is
\* valid for that listing in that region only.
PageToken(resource_key, region, k) ==
    [resource_key |-> resource_key, region |-> region, page |-> k]

\* The page a token stands for: no token is the first page.
PageOf(page_token) == IF page_token = None THEN 1 ELSE Unwrap(page_token).page

\* fetch_resources_paginated: one page of results and the token of the page
\* after it, or an error.
fetch_resources_paginated(resource_key, region, page_token, fails) ==
    IF fails THEN Err("AccessDenied")
    ELSE IF /\ IsSome(page_token)
            /\ \/ Unwrap(page_token).resource_key # resource_key
               \/ Unwrap(page_token).region # region
    THEN Err("InvalidNextToken")
    ELSE LET k == PageOf(page_token)
         IN  Ok([items |-> PageItems(resource_key, region, k),
                 next_token |-> IF k < aws.pages
                                THEN Some(PageToken(resource_key, region, k + 1))
                                ELSE None])

\* The characters of an id, and str::contains.
Chars(id) == IF id = "i-1" THEN << "i", "-", "1" >> ELSE << "-" >>
Contains(haystack, needle) ==
    \E i \in 1 .. Len(haystack) + 1 :
        /\ i + Len(needle) - 1 <= Len(haystack)
        /\ SubSeq(haystack, i, i + Len(needle) - 1) = needle

\* Iterator::filter(..).collect()
RECURSIVE Filter(_, _)
Filter(items, filter) ==
    IF items = << >> THEN << >>
    ELSE (IF Contains(Chars(Head(items).id), filter) THEN << Head(items) >> ELSE << >>)
         \o Filter(Tail(items), filter)

apply_filter(a) ==
    LET filtered == IF a.filter_text = << >> THEN a.items
                    ELSE Filter(a.items, a.filter_text)
    IN  [a EXCEPT !.filtered_items = filtered,
                  !.selected = IF a.selected >= Len(filtered) /\ filtered # << >>
                               THEN Len(filtered) - 1 ELSE a.selected]

fetch_page_KeepFiltered(a, page_token, fails) ==
    LET fetched_page == fetch_resources_paginated(a.current_resource_key, a.region,
                                                  page_token, fails)
        filtered == apply_filter([a EXCEPT !.items = fetched_page.val.items])
    IN  IF fetched_page.ok
        THEN [filtered EXCEPT
                  !.loading = FALSE,
                  !.error_message = None,
                  !.pagination.has_more = IsSome(fetched_page.val.next_token),
                  !.pagination.next_token = fetched_page.val.next_token,
                  !.selected = IF a.selected < Len(filtered.filtered_items)
                               THEN a.selected ELSE 0]
        ELSE [a EXCEPT !.loading = FALSE,
                       !.error_message = Some(fetched_page.err),
                       !.items = << >>,
                       !.selected = 0,
                       !.pagination = PaginationDefault]

fetch_page(a, page_token, fails) ==
    LET fetched_page == fetch_resources_paginated(a.current_resource_key, a.region,
                                                  page_token, fails)
        filtered == apply_filter([a EXCEPT !.items = fetched_page.val.items])
    IN  IF fetched_page.ok
        THEN [filtered EXCEPT
                  !.loading = FALSE,
                  !.error_message = None,
                  !.pagination.has_more = IsSome(fetched_page.val.next_token),
                  !.pagination.next_token = fetched_page.val.next_token,
                  !.selected = IF a.selected < Len(filtered.filtered_items)
                               THEN a.selected ELSE 0]
        ELSE [a EXCEPT !.loading = FALSE,
                       !.error_message = Some(fetched_page.err),
                       !.items = << >>,
                       !.filtered_items = << >>,
                       !.selected = 0,
                       !.pagination = PaginationDefault]

refresh_current(a, fails) == fetch_page(a, a.pagination.next_token, fails)

next_page(a, fails) ==
    IF ~a.pagination.has_more THEN a
    ELSE LET current_token == a.pagination.next_token
         IN  fetch_page([a EXCEPT !.pagination.token_stack = Append(@, current_token),
                                  !.pagination.current_page = @ + 1],
                        current_token, fails)

\* Vec::pop: the vector without its last element, and that element.
PopRest(v) == IF v = << >> THEN v ELSE SubSeq(v, 1, Len(v) - 1)
PopValue(v) == IF v = << >> THEN None ELSE Some(v[Len(v)])

\* The token prev_page fetches with: the one under the top of token_stack.
PrevToken(a) ==
    LET popped == PopRest(a.pagination.token_stack)
    IN  IF IsSome(PopValue(popped)) THEN Unwrap(PopValue(popped)) ELSE None

prev_page(a, fails) ==
    IF a.pagination.current_page <= 1 THEN a
    ELSE LET popped == PopRest(a.pagination.token_stack)
         IN  fetch_page([a EXCEPT !.pagination.token_stack = PopRest(popped),
                                  !.pagination.current_page = @ - 1],
                        PrevToken(a), fails)

\* ---------------------------------------------------------- the navigation
selected_item(a) ==
    IF a.selected < Len(a.filtered_items)
    THEN Some(a.filtered_items[a.selected + 1]) ELSE None

\* The resources of the registry, and for each the resources that are
\* reached from one of its items.
ResourceKeys == {"ec2-instances", "s3-buckets", "s3-objects"}
SubResources(resource_key) ==
    CASE resource_key = "s3-buckets" -> {"s3-objects"}
      [] resource_key = "s3-objects" -> {"s3-objects"}
      [] OTHER -> { }

Regions == {"us-east-1", "us-west-2"}

\* The IsFolder field of an item of s3-objects.
IsFolder(item) == item.id = "i-1"

\* What a ParentContext keeps of the item it was entered from: the fields
\* of the item itself, without the listing it was fetched in.
ParentItem(item) == [id |-> item.id]

reset_pagination(a) == [a EXCEPT !.pagination = PaginationDefault]

\* navigate_to_resource up to its refresh_current, and as a whole.
enter_resource(a, resource_key) ==
    reset_pagination([a EXCEPT !.parent_context = None,
                               !.navigation_stack = << >>,
                               !.current_resource_key = resource_key,
                               !.selected = 0,
                               !.filter_text = << >>,
                               !.filter_active = FALSE,
                               !.mode = "Normal"])

navigate_to_resource(a, resource_key, fails) ==
    IF resource_key \notin ResourceKeys
    THEN [a EXCEPT !.error_message = Some("Unknown resource")]
    ELSE refresh_current(enter_resource(a, resource_key), fails)

\* navigate_to_sub_resource goes on to the sub-resource.
EntersSubResource(a, sub_resource_key) ==
    /\ IsSome(selected_item(a))
    /\ sub_resource_key \in SubResources(a.current_resource_key)
    /\ (a.current_resource_key = "s3-objects" /\ sub_resource_key = "s3-objects")
           => IsFolder(Unwrap(selected_item(a)))

\* navigate_to_sub_resource from the push of the context to the reset of
\* the pagination, and as a whole.
enter_sub_resource_NoPush(a, sub_resource_key) ==
    reset_pagination(
        [a EXCEPT !.parent_context = Some([resource_key |-> a.current_resource_key,
                                           item |-> ParentItem(Unwrap(selected_item(a)))]),
                  !.current_resource_key = sub_resource_key,
                  !.selected = 0,
                  !.filter_text = << >>,
                  !.filter_active = FALSE])

enter_sub_resource_NoReset(a, sub_resource_key) ==
    [a EXCEPT !.navigation_stack = IF IsSome(a.parent_context)
                                   THEN Append(@, Unwrap(a.parent_context)) ELSE @,
              !.parent_context = Some([resource_key |-> a.current_resource_key,
                                       item |-> ParentItem(Unwrap(selected_item(a)))]),
              !.current_resource_key = sub_resource_key,
              !.selected = 0,
              !.filter_text = << >>,
              !.filter_active = FALSE]

enter_sub_resource(a, sub_resource_key) ==
    reset_pagination(
        [a EXCEPT !.navigation_stack = IF IsSome(a.parent_context)
                                       THEN Append(@, Unwrap(a.parent_context)) ELSE @,
                  !.parent_context = Some([resource_key |-> a.current_resource_key,
                                           item |-> ParentItem(Unwrap(selected_item(a)))]),
                  !.current_resource_key = sub_resource_key,
                  !.selected = 0,
                  !.filter_text = << >>,
                  !.filter_active = FALSE])

navigate_to_sub_resource(a, sub_resource_key, fails) ==
    IF selected_item(a) = None THEN a
    ELSE IF sub_resource_key \notin SubResources(a.current_resource_key)
    THEN [a EXCEPT !.error_message = Some("not a sub-resource")]
    ELSE IF ~EntersSubResource(a, sub_resource_key) THEN a
    ELSE refresh_current(enter_sub_resource(a, sub_resource_key), fails)

\* navigate_back up to its refresh_current, and as a whole.
leave_sub_resource(a) ==
    reset_pagination(
        [a EXCEPT !.parent_context = PopValue(a.navigation_stack),
                  !.navigation_stack = PopRest(@),
                  !.current_resource_key = Unwrap(a.parent_context).resource_key,
                  !.selected = 0,
                  !.filter_text = << >>,
                  !.filter_active = FALSE])

navigate_back(a, fails) ==
    IF a.parent_context = None THEN a
    ELSE refresh_current(leave_sub_resource(a), fails)

\* App::switch_region, when the clients could be switched.
switch_region(a, region) == [a EXCEPT !.region = region]

\* The page whose items are on screen; 0 when the list is empty.
Displayed(a) == IF a.items = << >> THEN 0 ELSE a.items[1].page

\* --------------------------------------------------------------- the modes
\* The actions the current resource defines: each has a shortcut, says
\* whether it requires confirmation and may carry a confirm configuration.
ResourceActions ==
    { [sdk_method |-> "start_instance", shortcut |-> "s", requires_confirm |-> FALSE,
       confirm |-> None],
      [sdk_method |-> "stop_instance", shortcut |-> "S", requires_confirm |-> TRUE,
       confirm |-> Some([default_yes |-> TRUE])],
      [sdk_method |-> "reboot_instance", shortcut |-> "r", requires_confirm |-> TRUE,
       confirm |-> None],
      [sdk_method |-> "terminate_instance", shortcut |-> "ctrl+d",
       requires_confirm |-> TRUE, confirm |-> Some([default_yes |-> FALSE])] }

SERVICE == "ec2"
READONLY_MESSAGE == "This operation is not supported in read-only mode"

\* The id of the selected item, when it has one that is neither "-" nor empty.
SelectedId(a) ==
    IF IsSome(selected_item(a)) /\ Unwrap(selected_item(a)).id \notin {"-", ""}
    THEN Some(Unwrap(selected_item(a)).id)
    ELSE None

show_warning(a, message) == [a EXCEPT !.warning_message = Some(message), !.mode = "Warning"]

enter_confirm_mode(a, pending) ==
    [a EXCEPT !.pending_action = Some(pending), !.mode = "Confirm"]

exit_mode(a) == [a EXCEPT !.mode = "Normal", !.pending_action = None]

create_pending_action(a, action, resource_id) ==
    IF action.confirm = None THEN None
    ELSE Some([service |-> SERVICE, sdk_method |-> action.sdk_method,
               resource_id |-> resource_id,
               selected_yes |-> Unwrap(action.confirm).default_yes])

\* What a key bound to `action` leads to in normal mode, for a character
\* shortcut (event.rs 191-232) and for ctrl+d (event.rs 96-123).
OnShortcut_NoReadonlyCheck(a, action) ==
    IF SelectedId(a) = None THEN "nothing"
    ELSE IF action.shortcut = "ctrl+d"
    THEN IF IsSome(create_pending_action(a, action, Unwrap(SelectedId(a))))
         THEN "confirm" ELSE "nothing"
    ELSE IF action.requires_confirm
    THEN IF IsSome(create_pending_action(a, action, Unwrap(SelectedId(a))))
         THEN "confirm" ELSE "nothing"
    ELSE "execute"

OnShortcut(a, action) ==
    IF SelectedId(a) = None THEN "nothing"
    ELSE IF a.readonly THEN "warning"
    ELSE IF action.shortcut = "ctrl+d"
    THEN IF IsSome(create_pending_action(a, action, Unwrap(SelectedId(a))))
         THEN "confirm" ELSE "nothing"
    ELSE IF action.requires_confirm
    THEN IF IsSome(create_pending_action(a, action, Unwrap(SelectedId(a))))
         THEN "confirm" ELSE "nothing"
    ELSE "execute"

\* App::page_down
page_down(a, page_size) ==
    IF a.filtered_items = << >> THEN a
    ELSE [a EXCEPT !.selected =
             IF a.selected + page_size < Len(a.filtered_items) - 1
             THEN a.selected + page_size ELSE Len(a.filtered_items) - 1]

\* What is remembered of an operation on the listing.
Operation(name, before, fetching, page_token, fails, paging) ==
    LET fetched_page == fetch_resources_paginated(fetching.current_resource_key,
                                                  fetching.region, page_token, fails)
    IN  [name |-> name, ok |-> fetched_page.ok, displayed |-> Displayed(before),
         current_page |-> before.pagination.current_page,
         paging |-> paging /\ fetched_page.ok,
         sent |-> page_token, call |-> None, from |-> None]

\* A refresh is the first load when no page has been fetched since the
\* pagination was reset.
RefreshOperation(a, fails) ==
    Operation("refresh_current", a, a, a.pagination.next_token, fails,
              a.pagination = PaginationDefault)

\* The arguments of one execute_action call.
ActionCall(sdk_method, resource_id) ==
    [service |-> SERVICE, sdk_method |-> sdk_method, resource_id |-> resource_id]

\* What is remembered of a key that called execute_action and refreshed the
\* list: the call, the mode and the dialog's answer when the key was
\* pressed, and whether the call failed.
ExecuteOperation(a, sdk_method, key, action_fails, fetch_fails) ==
    [RefreshOperation(a, fetch_fails) EXCEPT
        !.call = Some([sdk_method |-> sdk_method, mode |-> a.mode, key |-> key,
                       selected_yes |-> IF IsSome(a.pending_action)
                                        THEN Unwrap(a.pending_action).selected_yes
                                        ELSE FALSE,
                       failed |-> action_fails])]

\* The App after execute_action returned and the list was refreshed.
AfterAction(a, action_fails, fetch_fails) ==
    refresh_current(IF action_fails
                    THEN [a EXCEPT !.error_message = Some("Action failed")]
                    ELSE a,
                    fetch_fails)

\* The process has started: the first items are on screen, or none are.
InitApp ==
    /\ \E readonly \in BOOLEAN, pages \in 1 .. MaxPages,
          initial_items \in {PageItems("ec2-instances", "us-east-1", 1), << >>} :
        /\ app = AppStart(readonly, initial_items)
        /\ aws = [pages |-> pages]
    /\ executed = { }
    /\ op = NoOp
    /\ env = EnvNone
    /\ home = Some(HomeDir)
    /\ fs = FileSystem(HomeAws, None, None)
    /\ startup = World(env, home, fs)
    /\ NoCalls
    /\ ini = IniStart(<< >>)
    /\ NoAside

elsewhere == << credentialVars, ini, aws, aside >>

\* handle_normal_mode: a key bound to an action of the resource.
KeyShortcut(action, action_fails, fetch_fails) ==
    /\ app.mode = "Normal"
    /\ ~app.filter_active
    /\ LET todo == OnShortcut(app, action)
           id == Unwrap(SelectedId(app))
       IN  CASE todo = "warning" ->
                  /\ app' = show_warning(app, READONLY_MESSAGE)
                  /\ UNCHANGED << executed, op >>
             [] todo = "confirm" ->
                  /\ app' = enter_confirm_mode(app,
                               Unwrap(create_pending_action(app, action, id)))
                  /\ UNCHANGED << executed, op >>
             [] todo = "execute" ->
                  /\ executed' = executed \cup {ActionCall(action.sdk_method, id)}
                  /\ app' = AfterAction(app, action_fails, fetch_fails)
                  /\ op' = ExecuteOperation(app, action.sdk_method, action.shortcut,
                                            action_fails, fetch_fails)
             [] todo = "nothing" ->
                  /\ app' = IF action.shortcut = "ctrl+d" THEN page_down(app, 10) ELSE app
                  /\ UNCHANGED << executed, op >>
    /\ UNCHANGED elsewhere

\* handle_normal_mode: j, k.
KeyDown ==
    /\ app.mode = "Normal"
    /\ ~app.filter_active
    /\ app' = page_down(app, 1)
    /\ UNCHANGED << elsewhere, executed, op >>

KeyUp ==
    /\ app.mode = "Normal"
    /\ ~app.filter_active
    /\ app' = [app EXCEPT !.selected = IF @ = 0 THEN 0 ELSE @ - 1]
    /\ UNCHANGED << elsewhere, executed, op >>

\* handle_normal_mode: ] and [.
KeyNextPage(fetch_fails) ==
    /\ app.mode = "Normal"
    /\ ~app.filter_active
    /\ app.pagination.has_more
    /\ app.pagination.current_page < MaxPageNumber
    /\ app' = next_page(app, fetch_fails)
    /\ op' = Operation("next_page", app, app, app.pagination.next_token, fetch_fails,
                       op.paging)
    /\ UNCHANGED << elsewhere, executed >>

KeyPrevPage(fetch_fails) ==
    /\ app.mode = "Normal"
    /\ ~app.filter_active
    /\ app.pagination.current_page > 1
    /\ app' = prev_page(app, fetch_fails)
    /\ op' = Operation("prev_page", app, app, PrevToken(app), fetch_fails, op.paging)
    /\ UNCHANGED << elsewhere, executed >>

\* handle_normal_mode: ?, and handle_help_mode.
KeyHelp ==
    /\ app.mode = "Normal"
    /\ ~app.filter_active
    /\ app' = [app EXCEPT !.mode = "Help"]
    /\ UNCHANGED << elsewhere, executed, op >>

KeyHelpExit ==
    /\ app.mode = "Help"
    /\ app' = exit_mode(app)
    /\ UNCHANGED << elsewhere, executed, op >>

\* handle_confirm_mode: Left, Right, Tab, h, l.
KeyConfirmToggle ==
    /\ app.mode = "Confirm"
    /\ app' = IF IsSome(app.pending_action)
              THEN [app EXCEPT !.pending_action[1].selected_yes = ~@]
              ELSE app
    /\ UNCHANGED << elsewhere, executed, op >>

\* handle_confirm_mode: Enter.
KeyConfirmEnter_AnyAnswer(action_fails, fetch_fails) ==
    /\ app.mode = "Confirm"
    /\ IF IsSome(app.pending_action)
       THEN IF app.readonly
            THEN /\ app' = exit_mode([app EXCEPT !.error_message = Some(READONLY_MESSAGE)])
                 /\ UNCHANGED << executed, op >>
            ELSE /\ executed' = executed \cup
                        {ActionCall(Unwrap(app.pending_action).sdk_method,
                                    Unwrap(app.pending_action).resource_id)}
                 /\ app' = exit_mode(AfterAction(app, action_fails, fetch_fails))
                 /\ op' = ExecuteOperation(app, Unwrap(app.pending_action).sdk_method,
                                           "Enter", action_fails, fetch_fails)
       ELSE /\ app' = exit_mode(app)
            /\ UNCHANGED << executed, op >>
    /\ UNCHANGED elsewhere

KeyConfirmEnter(action_fails, fetch_fails) ==
    /\ app.mode = "Confirm"
    /\ IF IsSome(app.pending_action) /\ Unwrap(app.pending_action).selected_yes
       THEN IF app.readonly
            THEN /\ app' = exit_mode([app EXCEPT !.error_message = Some(READONLY_MESSAGE)])
                 /\ UNCHANGED << executed, op >>
            ELSE /\ executed' = executed \cup
                        {ActionCall(Unwrap(app.pending_action).sdk_method,
                                    Unwrap(app.pending_action).resource_id)}
                 /\ app' = exit_mode(AfterAction(app, action_fails, fetch_fails))
                 /\ op' = ExecuteOperation(app, Unwrap(app.pending_action).sdk_method,
                                           "Enter", action_fails, fetch_fails)
       ELSE /\ app' = exit_mode(app)
            /\ UNCHANGED << executed, op >>
    /\ UNCHANGED elsewhere

\* handle_confirm_mode: y, Y.
KeyConfirmYes(action_fails, fetch_fails) ==
    /\ app.mode = "Confirm"
    /\ IF app.readonly
       THEN /\ app' = exit_mode([app EXCEPT !.error_message = Some(READONLY_MESSAGE)])
            /\ UNCHANGED << executed, op >>
       ELSE IF IsSome(app.pending_action)
       THEN /\ executed' = executed \cup
                   {ActionCall(Unwrap(app.pending_action).sdk_method,
                               Unwrap(app.pending_action).resource_id)}
            /\ app' = exit_mode(AfterAction(app, action_fails, fetch_fails))
            /\ op' = ExecuteOperation(app, Unwrap(app.pending_action).sdk_method,
                                      "y", action_fails, fetch_fails)
       ELSE /\ app' = exit_mode(app)
            /\ UNCHANGED << executed, op >>
    /\ UNCHANGED elsewhere

\* handle_confirm_mode: n, N, Esc.
KeyConfirmNo ==
    /\ app.mode = "Confirm"
    /\ app' = exit_mode(app)
    /\ UNCHANGED << elsewhere, executed, op >>

\* handle_warning_mode: Enter, Esc, o, O.
KeyWarningOk ==
    /\ app.mode = "Warning"
    /\ app' = exit_mode([app EXCEPT !.warning_message = None])
    /\ UNCHANGED << elsewhere, executed, op >>

\* run_app: the automatic refresh, due in normal mode only.
AutoRefresh(fetch_fails) ==
    /\ app.mode = "Normal"
    /\ ~app.loading
    /\ app' = refresh_current(app, fetch_fails)
    /\ op' = RefreshOperation(app, fetch_fails)
    /\ UNCHANGED << elsewhere, executed >>

NextApp ==
    \/ \E action \in ResourceActions, action_fails, fetch_fails \in BOOLEAN :
        KeyShortcut(action, action_fails, fetch_fails)
    \/ KeyDown
    \/ KeyUp
    \/ \E fetch_fails \in BOOLEAN : KeyNextPage(fetch_fails)
    \/ \E fetch_fails \in BOOLEAN : KeyPrevPage(fetch_fails)
    \/ KeyHelp
    \/ KeyHelpExit
    \/ KeyConfirmToggle
    \/ \E action_fails, fetch_fails \in BOOLEAN : KeyConfirmEnter(action_fails, fetch_fails)
    \/ \E action_fails, fetch_fails \in BOOLEAN : KeyConfirmYes(action_fails, fetch_fails)
    \/ KeyConfirmNo
    \/ KeyWarningOk
    \/ \E fetch_fails \in BOOLEAN : AutoRefresh(fetch_fails)

SpecApp == InitApp /\ [][NextApp]_vars

\* ------------------------------------------- navigation, region and filter
MaxDepth == 2
MaxFilter == 1
FilterChars == {"i"}

NavState(a) ==
    [current_resource_key |-> a.current_resource_key,
     parent_context |-> a.parent_context,
     navigation_stack |-> a.navigation_stack]

\* What is remembered of a navigation: `entered` is the App when
\* refresh_current is called. A navigate_back right after a
\* navigate_to_sub_resource keeps the navigation state the latter started
\* from.
NavOperation(name, before, entered, fails) ==
    [Operation(name, before, entered, entered.pagination.next_token, fails, TRUE) EXCEPT
        !.from = IF name = "navigate_to_sub_resource" THEN Some(NavState(before))
                 ELSE IF name = "navigate_back" /\ op.name = "navigate_to_sub_resource"
                 THEN op.from
                 ELSE None]

\* What is remembered of a region switch and the refresh after it.
RegionOperation(before, switched, fails) ==
    Operation("switch_region", before, switched, switched.pagination.next_token, fails,
              switched.pagination = PaginationDefault)

clear_filter(a) == apply_filter([a EXCEPT !.filter_text = << >>, !.filter_active = FALSE])

InitNav == InitApp /\ ~app.readonly

\* handle_normal_mode: the shortcut of a sub-resource of the current resource.
KeySubResource(sub_resource_key, fetch_fails) ==
    /\ app.mode = "Normal"
    /\ ~app.filter_active
    /\ sub_resource_key \in SubResources(app.current_resource_key)
    /\ IsSome(selected_item(app))
    /\ Len(app.navigation_stack) < MaxDepth
    /\ app' = navigate_to_sub_resource(app, sub_resource_key, fetch_fails)
    /\ op' = IF EntersSubResource(app, sub_resource_key)
             THEN NavOperation("navigate_to_sub_resource", app,
                               enter_sub_resource(app, sub_resource_key), fetch_fails)
             ELSE op
    /\ UNCHANGED << elsewhere, executed >>

\* handle_normal_mode: Backspace.
KeyBackspace(fetch_fails) ==
    /\ app.mode = "Normal"
    /\ ~app.filter_active
    /\ IsSome(app.parent_context)
    /\ app' = navigate_back(app, fetch_fails)
    /\ op' = NavOperation("navigate_back", app, leave_sub_resource(app), fetch_fails)
    /\ UNCHANGED << elsewhere, executed >>

\* handle_normal_mode: Esc clears the filter, or else goes back.
KeyEsc(fetch_fails) ==
    /\ app.mode = "Normal"
    /\ ~app.filter_active
    /\ IF app.filter_text # << >>
       THEN app' = clear_filter(app) /\ UNCHANGED op
       ELSE /\ IsSome(app.parent_context)
            /\ app' = navigate_back(app, fetch_fails)
            /\ op' = NavOperation("navigate_back", app, leave_sub_resource(app), fetch_fails)
    /\ UNCHANGED << elsewhere, executed >>

\* handle_normal_mode: 0 to 5.
KeyRegion(region, fetch_fails) ==
    /\ app.mode = "Normal"
    /\ ~app.filter_active
    /\ app' = refresh_current(switch_region(app, region), fetch_fails)
    /\ op' = RegionOperation(app, switch_region(app, region), fetch_fails)
    /\ UNCHANGED << elsewhere, executed >>

\* handle_normal_mode: / and :.
KeyFilter ==
    /\ app.mode = "Normal"
    /\ ~app.filter_active
    /\ app' = [app EXCEPT !.filter_active = ~@]
    /\ UNCHANGED << elsewhere, executed, op >>

KeyCommand ==
    /\ app.mode = "Normal"
    /\ ~app.filter_active
    /\ app' = [app EXCEPT !.mode = "Command"]
    /\ UNCHANGED << elsewhere, executed, op >>

\* handle_filter_input: a character, Backspace, Enter, Esc.
FilterChar(c) ==
    /\ app.mode = "Normal"
    /\ app.filter_active
    /\ Len(app.filter_text) < MaxFilter
    /\ app' = apply_filter([app EXCEPT !.filter_text = Append(@, c)])
    /\ UNCHANGED << elsewhere, executed, op >>

FilterBackspace ==
    /\ app.mode = "Normal"
    /\ app.filter_active
    /\ app' = apply_filter([app EXCEPT !.filter_text = PopRest(@)])
    /\ UNCHANGED << elsewhere, executed, op >>

FilterEnter ==
    /\ app.mode = "Normal"
    /\ app.filter_active
    /\ app' = [app EXCEPT !.filter_active = FALSE]
    /\ UNCHANGED << elsewhere, executed, op >>

FilterEsc ==
    /\ app.mode = "Normal"
    /\ app.filter_active
    /\ app' = clear_filter(app)
    /\ UNCHANGED << elsewhere, executed, op >>

\* handle_command_mode: Enter leaves the mode when the command did not.
ExitCommand(a) == IF a.mode = "Command" THEN exit_mode(a) ELSE a

\* handle_command_mode: Esc, and Enter on back, region <name> and the name
\* of a resource.
CommandEsc ==
    /\ app.mode = "Command"
    /\ app' = exit_mode(app)
    /\ UNCHANGED << elsewhere, executed, op >>

CommandBack(fetch_fails) ==
    /\ app.mode = "Command"
    /\ app' = ExitCommand(navigate_back(app, fetch_fails))
    /\ op' = IF IsSome(app.parent_context)
             THEN NavOperation("navigate_back", app, leave_sub_resource(app), fetch_fails)
             ELSE op
    /\ UNCHANGED << elsewhere, executed >>

CommandRegion(region, fetch_fails) ==
    /\ app.mode = "Command"
    /\ app' = ExitCommand(refresh_current(switch_region(app, region), fetch_fails))
    /\ op' = RegionOperation(app, switch_region(app, region), fetch_fails)
    /\ UNCHANGED << elsewhere, executed >>

CommandResource(resource_key, fetch_fails) ==
    /\ app.mode = "Command"
    /\ IF resource_key \in SubResources(app.current_resource_key)
          /\ IsSome(selected_item(app))
       THEN /\ Len(app.navigation_stack) < MaxDepth
            /\ app' = ExitCommand(navigate_to_sub_resource(app, resource_key, fetch_fails))
            /\ op' = IF EntersSubResource(app, resource_key)
                     THEN NavOperation("navigate_to_sub_resource", app,
                                       enter_sub_resource(app, resource_key), fetch_fails)
                     ELSE op
       ELSE /\ app' = ExitCommand(navigate_to_resource(app, resource_key, fetch_fails))
            /\ op' = NavOperation("navigate_to_resource", app,
                                  enter_resource(app, resource_key), fetch_fails)
    /\ UNCHANGED << elsewhere, executed >>

NextNav ==
    \/ \E sub_resource_key \in ResourceKeys, fetch_fails \in BOOLEAN :
           KeySubResource(sub_resource_key, fetch_fails)
    \/ \E fetch_fails \in BOOLEAN : KeyBackspace(fetch_fails)
    \/ \E fetch_fails \in BOOLEAN : KeyEsc(fetch_fails)
    \/ \E region \in Regions, fetch_fails \in BOOLEAN : KeyRegion(region, fetch_fails)
    \/ KeyFilter
    \/ KeyCommand
    \/ \E c \in FilterChars : FilterChar(c)
    \/ FilterBackspace
    \/ FilterEnter
    \/ FilterEsc
    \/ CommandEsc
    \/ \E fetch_fails \in BOOLEAN : CommandBack(fetch_fails)
    \/ \E region \in Regions, fetch_fails \in BOOLEAN : CommandRegion(region, fetch_fails)
    \/ \E resource_key \in ResourceKeys, fetch_fails \in BOOLEAN :
           CommandResource(resource_key, fetch_fails)
    \/ KeyDown
    \/ KeyUp
    \/ \E fetch_fails \in BOOLEAN : KeyNextPage(fetch_fails)
    \/ \E fetch_fails \in BOOLEAN : KeyPrevPage(fetch_fails)
    \/ \E fetch_fails \in BOOLEAN : AutoRefresh(fetch_fails)

SpecNav == InitNav /\ [][NextNav]_vars

\* ---------------------------------------------------------- execute_action
\* Everything but the function looked at is at rest.
AtRest ==
    /\ env = EnvNone
    /\ home = Some(HomeDir)
    /\ fs = FileSystem(HomeAws, None, None)
    /\ startup = World(env, home, fs)
    /\ NoCalls
    /\ ini = IniStart(<< >>)
    /\ NoApp

\* str::split(c).collect()
RECURSIVE Split(_, _)
Split(s, c) ==
    LET i == FirstIndex(s, c, 1)
    IN  IF i = 0 THEN << s >>
        ELSE << SubSeq(s, 1, i - 1) >> \o Split(SubSeq(s, i + 1, Len(s)), c)

\* The arms of execute_action that send one request about resource_id and
\* return Ok(()) after it: service, action, operation requested.
DirectActions ==
    { << "ec2", "start_instance", "StartInstances" >>,
      << "ec2", "stop_instance", "StopInstances" >>,
      << "ec2", "terminate_instance", "TerminateInstances" >>,
      << "lambda", "invoke_function", "Invoke" >>,
      << "lambda", "delete_function", "DeleteFunction" >>,
      << "rds", "start_db_instance", "StartDBInstance" >>,
      << "rds", "stop_db_instance", "StopDBInstance" >>,
      << "rds", "reboot_db_instance", "RebootDBInstance" >>,
      << "rds", "delete_db_instance", "DeleteDBInstance" >>,
      << "ecs", "delete_cluster", "DeleteCluster" >>,
      << "eks", "delete_cluster", "DeleteCluster" >>,
      << "s3", "delete_bucket", "DeleteBucket" >>,
      << "dynamodb", "delete_table", "DeleteTable" >>,
      << "sqs", "purge_queue", "PurgeQueue" >>,
      << "sqs", "delete_queue", "DeleteQueue" >>,
      << "sns", "delete_topic", "DeleteTopic" >>,
      << "cloudformation", "delete_stack", "DeleteStack" >>,
      << "secretsmanager", "rotate_secret", "RotateSecret" >>,
      << "secretsmanager", "delete_secret", "DeleteSecret" >>,
      << "autoscaling", "delete_auto_scaling_group", "DeleteAutoScalingGroup" >>,
      << "elbv2", "delete_load_balancer", "DeleteLoadBalancer" >>,
      << "elbv2", "delete_listener", "DeleteListener" >>,
      << "elbv2", "delete_rule", "DeleteRule" >>,
      << "elbv2", "delete_target_group", "DeleteTargetGroup" >>,
      << "elbv2", "deregister_targets", "DeregisterTargets" >> }

\* The arms that take the cluster out of the resource id.
ClusterActions ==
    { << "ecs", "delete_service", "DeleteService" >>,
      << "ecs", "stop_task", "StopTask" >> }

OperationOf(arms, service, action) ==
    (CHOOSE arm \in arms : arm[1] = service /\ arm[2] = action)[3]

\* execute_action: its result and the requests it sent; request_fails is
\* what the service answers to a request.
execute_action(service, action, resource_id, request_fails) ==
    LET answer == IF request_fails THEN Err("request failed") ELSE Ok(<< >>)
    IN  IF \E arm \in DirectActions : arm[1] = service /\ arm[2] = action
        THEN [result |-> answer,
              sent |-> << [service |-> service,
                           operation |-> OperationOf(DirectActions, service, action),
                           resource_id |-> resource_id] >>]
        ELSE IF \E arm \in ClusterActions : arm[1] = service /\ arm[2] = action
        THEN LET parts == Split(resource_id, "/")
             IN  IF Len(parts) >= 2
                 THEN [result |-> answer,
                       sent |-> << [service |-> service,
                                    operation |-> OperationOf(ClusterActions, service,
                                                              action),
                                    cluster |-> parts[Len(parts) - 1],
                                    resource_id |-> resource_id] >>]
                 ELSE [result |-> Ok(<< >>), sent |-> << >>]
        ELSE [result |-> Err("Unknown action"), sent |-> << >>]

\* The calls looked at: every arm, and an action no arm knows.
DispatchCalls ==
    { << arm[1], arm[2] >> : arm \in DirectActions \cup ClusterActions }
        \cup { << "ec2", "reboot_instance" >> }

\* Resource ids: a bare name, cluster/name, and an ARN with both.
ResourceIds ==
    { << "my-service" >>,
      << "my-cluster", "/", "my-service" >>,
      << "arn:aws:ecs:us-east-1:123456789012:service", "/", "my-cluster", "/",
         "my-service" >> }

InitDispatch == AtRest /\ NoAside

Dispatch(call, resource_id, request_fails) ==
    /\ dispatched' =
           Some([service |-> call[1], action |-> call[2], resource_id |-> resource_id,
                 request_fails |-> request_fails,
                 returned |-> execute_action(call[1], call[2], resource_id,
                                             request_fails)])
    /\ UNCHANGED << credentialVars, ini, appVars, extracted, tail >>

NextDispatch ==
    \E call \in DispatchCalls, resource_id \in ResourceIds, request_fails \in BOOLEAN :
        Dispatch(call, resource_id, request_fails)

SpecDispatch == InitDispatch /\ [][NextDispatch]_vars

\* --------------------------------------------------------- list extraction
MaxElements == 3

\* serde_json::Value: a string (JStr), an array, or an object, whose
\* entries << key, value >> are in the order the map iterates them.
VArray(items) == [type |-> "array", items |-> items]
VObject(entries) == [type |-> "object", entries |-> entries]

\* Option::and_then
AndThen(o, F(_)) == IF IsSome(o) THEN F(Unwrap(o)) ELSE None

\* Value::as_object, Map::values().next(), Value::get(key)
AsObject(v) == IF v.type = "object" THEN Some(v) ELSE None
FirstValue(o) == IF o.entries = << >> THEN None ELSE Some(o.entries[1][2])
AsObjectFirst(v) == AndThen(AsObject(v), FirstValue)
Get(v, key) ==
    IF v.type = "object" /\ \E i \in 1 .. Len(v.entries) : v.entries[i][1] = key
    THEN Some(v.entries[CHOOSE i \in 1 .. Len(v.entries) : v.entries[i][1] = key][2])
    ELSE None

\* An XML element: its tag, its text and its child elements.
Element(tag, text, children) == [tag |-> tag, text |-> text, children |-> children]

\* The tags of the children, each once, in the order they first appear.
RECURSIVE DistinctTags(_)
DistinctTags(children) ==
    IF children = << >> THEN << >>
    ELSE << Head(children).tag >>
         \o SelectSeq(DistinctTags(Tail(children)), LAMBDA t : t # Head(children).tag)

\* The normalizer on an element: text when it has no child elements, else
\* a mapping of the children's tags, a tag that repeats holding a sequence
\* and a tag that occurs once holding the bare value.
RECURSIVE normalize(_)
normalize(e) ==
    IF e.children = << >> THEN JStr(e.text)
    ELSE LET tags == DistinctTags(e.children)
         IN  VObject([i \in 1 .. Len(tags) |->
                 LET same == SelectSeq(e.children, LAMBDA c : c.tag = tags[i])
                 IN  << tags[i],
                        IF Len(same) = 1 THEN normalize(same[1])
                        ELSE VArray([j \in 1 .. Len(same) |-> normalize(same[j])]) >>])

xml_to_json(xml) == Ok(VObject(<< << xml.tag, normalize(xml) >> >>))

extract_iam_list_ArrayOnly(json, list_key, item_key) ==
    LET found == AndThen(AndThen(AndThen(AndThen(AsObjectFirst(json), AsObject),
                                         FirstValue),
                                 LAMBDA v : Get(v, list_key)),
                         LAMBDA v : Get(v, item_key))
    IN  IF IsSome(found) /\ Unwrap(found).type = "array" THEN Unwrap(found).items
        ELSE << >>

extract_iam_list(json, list_key, item_key) ==
    LET found == AndThen(AndThen(AndThen(AndThen(AsObjectFirst(json), AsObject),
                                         FirstValue),
                                 LAMBDA v : Get(v, list_key)),
                         LAMBDA v : Get(v, item_key))
    IN  IF IsSome(found) /\ Unwrap(found).type = "array" THEN Unwrap(found).items
        ELSE IF IsSome(found) /\ Unwrap(found).type = "object" THEN << Unwrap(found) >>
        ELSE << >>

extract_ec2_list(json, set_key) ==
    LET items == AndThen(AndThen(AsObjectFirst(json), LAMBDA v : Get(v, set_key)),
                         LAMBDA v : Get(v, "item"))
    IN  IF IsSome(items) /\ Unwrap(items).type = "array" THEN Unwrap(items).items
        ELSE IF IsSome(items) /\ Unwrap(items).type = "object" THEN << Unwrap(items) >>
        ELSE << >>

extract_rds_list(json, list_key, item_key) ==
    LET found == AndThen(AndThen(AndThen(AndThen(AsObjectFirst(json), AsObject),
                                         FirstValue),
                                 LAMBDA v : Get(v, list_key)),
                         LAMBDA v : Get(v, item_key))
    IN  IF IsSome(found) /\ Unwrap(found).type = "array" THEN Unwrap(found).items
        ELSE IF IsSome(found) /\ Unwrap(found).type = "object" THEN << Unwrap(found) >>
        ELSE << >>

parse_query_list(xml, list_key, item_key) ==
    LET json == xml_to_json(xml).val
        found == AndThen(AndThen(AndThen(AndThen(AsObjectFirst(json), AsObject),
                                         FirstValue),
                                 LAMBDA v : Get(v, list_key)),
                         LAMBDA v : Get(v, item_key))
        items == IF IsSome(found) THEN Unwrap(found) ELSE VArray(<< >>)
    IN  IF items.type = "array" THEN Ok(items.items)
        ELSE IF items.type = "object" THEN Ok(<< items >>)
        ELSE Ok(<< >>)

\* The elements a list may hold: two with child elements and one with
\* text only.
Members ==
    { Element("x", "", << Element("Name", "a", << >>) >>),
      Element("x", "", << Element("Name", "b", << >>), Element("Arn", "arn:b", << >>) >>),
      Element("x", "t", << >>) }

Tagged(elements, tag) == [i \in 1 .. Len(elements) |-> [elements[i] EXCEPT !.tag = tag]]

ElementLists == UNION { [1 .. n -> Members] : n \in 0 .. MaxElements }

\* The responses of the Query protocol and of EC2 that hold `elements`.
QueryResponse(operation, list_key, item_key, elements) ==
    Element(operation \o "Response", "",
            << Element(operation \o "Result", "",
                       << Element(list_key, "", Tagged(elements, item_key)) >>),
               Element("ResponseMetadata", "",
                       << Element("RequestId", "r-1", << >>) >>) >>)

Ec2Response(operation, set_key, elements) ==
    Element(operation \o "Response", "",
            << Element("requestId", "r-1", << >>),
               Element(set_key, "", Tagged(elements, "item")) >>)

Helpers == {"extract_iam_list", "extract_ec2_list", "extract_rds_list", "parse_query_list"}

ResponseFor(helper, elements) ==
    CASE helper = "extract_iam_list" -> QueryResponse("ListUsers", "Users", "member", elements)
      [] helper = "extract_ec2_list" -> Ec2Response("DescribeVpcs", "vpcSet", elements)
      [] helper = "extract_rds_list" ->
             QueryResponse("DescribeDBInstances", "DBInstances", "DBInstance", elements)
      [] helper = "parse_query_list" -> QueryResponse("ListUsers", "Users", "member", elements)

ListOf(helper, xml) ==
    CASE helper = "extract_iam_list" -> extract_iam_list(xml_to_json(xml).val, "Users", "member")
      [] helper = "extract_ec2_list" -> extract_ec2_list(xml_to_json(xml).val, "vpcSet")
      [] helper = "extract_rds_list" ->
             extract_rds_list(xml_to_json(xml).val, "DBInstances", "DBInstance")
      [] helper = "parse_query_list" -> parse_query_list(xml, "Users", "member").val

InitExtract == AtRest /\ NoAside

Extract(helper, elements) ==
    /\ extracted' = Some([helper |-> helper, elements |-> elements,
                          list |-> ListOf(helper, ResponseFor(helper, elements))])
    /\ UNCHANGED << credentialVars, ini, appVars, dispatched, tail >>

NextExtract == \E helper \in Helpers, elements \in ElementLists : Extract(helper, elements)

SpecExtract == InitExtract /\ [][NextExtract]_vars

\* ------------------------------------------------------------ the log tail
MAX_LOG_EVENTS == 1000
LOG_POLL_INTERVAL == 2
MaxPolls == 3
MaxKeys == 1
MaxTailClock == 2

\* The LogTailState enter_log_tail_mode creates at time `at`.
LogTailStart(at) ==
    [events |-> << >>, scroll |-> 0, next_forward_token |-> None, auto_scroll |-> TRUE,
     paused |-> FALSE, last_poll |-> at, error |-> None]

\* usize::saturating_sub
SaturatingSub(a, b) == IF a > b THEN a - b ELSE 0

\* poll_log_events on the state of the tail: `response` is what invoke_sdk
\* returns when a request is sent, `at` is Instant::now().
poll_log_events_KeepOldest(state, response, at) ==
    IF state.paused THEN state
    ELSE LET pushed == state.events \o response.val.events
             kept == IF Len(pushed) > MAX_LOG_EVENTS
                     THEN SubSeq(pushed, 1, MAX_LOG_EVENTS)
                     ELSE pushed
             polled ==
                 IF response.ok
                 THEN [state EXCEPT
                          !.error = None,
                          !.events = kept,
                          !.next_forward_token =
                              IF IsSome(response.val.nextForwardToken)
                              THEN response.val.nextForwardToken ELSE @,
                          !.scroll = IF state.auto_scroll /\ kept # << >>
                                     THEN SaturatingSub(Len(kept), 1) ELSE @]
                 ELSE [state EXCEPT
                          !.error = Some("Failed to fetch logs: " \o response.err)]
         IN  [polled EXCEPT !.last_poll = at]

poll_log_events_NoPauseCheck(state, response, at) ==
    IF FALSE THEN state
    ELSE LET pushed == state.events \o response.val.events
             kept == IF Len(pushed) > MAX_LOG_EVENTS
                     THEN SubSeq(pushed, Len(pushed) - MAX_LOG_EVENTS + 1, Len(pushed))
                     ELSE pushed
             polled ==
                 IF response.ok
                 THEN [state EXCEPT
                          !.error = None,
                          !.events = kept,
                          !.next_forward_token =
                              IF IsSome(response.val.nextForwardToken)
                              THEN response.val.nextForwardToken ELSE @,
                          !.scroll = IF state.auto_scroll /\ kept # << >>
                                     THEN SaturatingSub(Len(kept), 1) ELSE @]
                 ELSE [state EXCEPT
                          !.error = Some("Failed to fetch logs: " \o response.err)]
         IN  [polled EXCEPT !.last_poll = at]

poll_log_events_ForgetToken(state, response, at) ==
    IF state.paused THEN state
    ELSE LET pushed == state.events \o response.val.events
             kept == IF Len(pushed) > MAX_LOG_EVENTS
                     THEN SubSeq(pushed, Len(pushed) - MAX_LOG_EVENTS + 1, Len(pushed))
                     ELSE pushed
             polled ==
                 IF response.ok
                 THEN [state EXCEPT
                          !.error = None,
                          !.events = kept,
                          !.next_forward_token =
                              IF IsSome(response.val.nextForwardToken)
                              THEN response.val.nextForwardToken ELSE @,
                          !.scroll = IF state.auto_scroll /\ kept # << >>
                                     THEN SaturatingSub(Len(kept), 1) ELSE @]
                 ELSE [state EXCEPT
                          !.error = Some("Failed to fetch logs: " \o response.err),
                          !.next_forward_token = None]
         IN  [polled EXCEPT !.last_poll = at]

poll_log_events(state, response, at) ==
    IF state.paused THEN state
    ELSE LET pushed == state.events \o response.val.events
             kept == IF Len(pushed) > MAX_LOG_EVENTS
                     THEN SubSeq(pushed, Len(pushed) - MAX_LOG_EVENTS + 1, Len(pushed))
                     ELSE pushed
             polled ==
                 IF response.ok
                 THEN [state EXCEPT
                          !.error = None,
                          !.events = kept,
                          !.next_forward_token =
                              IF IsSome(response.val.nextForwardToken)
                              THEN response.val.nextForwardToken ELSE @,
                          !.scroll = IF state.auto_scroll /\ kept # << >>
                                     THEN SaturatingSub(Len(kept), 1) ELSE @]
                 ELSE [state EXCEPT
                          !.error = Some("Failed to fetch logs: " \o response.err)]
         IN  [polled EXCEPT !.last_poll = at]

\* poll_log_events sends a request.
PollSends(state) == ~state.paused

\* The next_forward_token of the params poll_log_events sends: the token of
\* the state, when it holds one.
PollParams(state) == state.next_forward_token

\* What is recorded of a request: the token it carried, whether the state
\* held an error when it was sent, and whether get_log_events answered it.
LogRequest(state, response) ==
    [next_forward_token |-> PollParams(state), after_error |-> IsSome(state.error),
     ok |-> response.ok]

\* poll_logs_if_tailing polls.
should_poll(state, at) == ~state.paused /\ at - state.last_poll >= LOG_POLL_INTERVAL

toggle_log_tail_pause(state) == [state EXCEPT !.paused = ~@]

log_tail_scroll_up(state, amount) ==
    [state EXCEPT !.scroll = SaturatingSub(@, amount), !.auto_scroll = FALSE]

log_tail_scroll_down(state, amount) ==
    LET max_scroll == SaturatingSub(Len(state.events), 1)
    IN  [state EXCEPT !.scroll = IF @ + amount < max_scroll THEN @ + amount
                                 ELSE max_scroll]

log_tail_scroll_to_top(state) == [state EXCEPT !.scroll = 0, !.auto_scroll = FALSE]

log_tail_scroll_to_bottom(state) ==
    [state EXCEPT !.scroll = SaturatingSub(Len(state.events), 1), !.auto_scroll = TRUE]

\* What get_log_events may answer after `received` events: an error, or a
\* batch of the events that follow, with or without a nextForwardToken.
BatchSizes == {0, 1, 600}
Batch(received, n) == [i \in 1 .. n |-> received + i]
LogResponses(received) ==
    { Err("Throttling") }
        \cup UNION { { Ok([events |-> Batch(received, n), nextForwardToken |-> token]) :
                         token \in {None, Some(received + n)} } : n \in BatchSizes }

\* The tail after a call of poll_log_events.
Polled(response, how) ==
    LET state == Unwrap(tail.state)
        sends == how = "sent"
    IN  [tail EXCEPT
            !.state = Some(IF how = "early" THEN state
                           ELSE poll_log_events(state, response, tail.clock)),
            !.calls = @ + 1,
            !.requests = IF sends THEN @ + 1 ELSE @,
            !.received = IF sends /\ response.ok THEN @ + Len(response.val.events) ELSE @,
            !.request = IF sends THEN Some(LogRequest(state, response)) ELSE @,
            !.last = how]

unchangedByTail == << credentialVars, ini, appVars, dispatched, extracted >>

InitLogTail == AtRest /\ NoAside

\* enter_log_tail_mode on a log stream.
EnterLogTail ==
    /\ tail.state = None
    /\ tail.calls < MaxPolls
    /\ \E response \in LogResponses(0) :
           tail' = [[tail EXCEPT !.state = Some(LogTailStart(tail.clock)),
                                 !.received = 0, !.keys = 0]
                        EXCEPT !.state = Some(poll_log_events(LogTailStart(tail.clock),
                                                              response, tail.clock)),
                               !.calls = @ + 1,
                               !.requests = @ + 1,
                               !.received = IF response.ok
                                            THEN Len(response.val.events) ELSE 0,
                               !.request = Some(LogRequest(LogTailStart(tail.clock),
                                                        response)),
                               !.last = "sent"]
    /\ UNCHANGED unchangedByTail

\* run_app: poll_logs_if_tailing in log tail mode.
PollLogsIfTailing ==
    /\ IsSome(tail.state)
    /\ tail.calls < MaxPolls
    /\ \E response \in LogResponses(tail.received) :
           tail' = Polled(response,
                          IF should_poll(Unwrap(tail.state), tail.clock) THEN "sent"
                          ELSE IF Unwrap(tail.state).paused THEN "paused"
                          ELSE "early")
    /\ UNCHANGED unchangedByTail

\* A call of poll_log_events itself.
PollLogEvents ==
    /\ IsSome(tail.state)
    /\ tail.calls < MaxPolls
    /\ \E response \in LogResponses(tail.received) :
           tail' = Polled(response,
                          IF PollSends(Unwrap(tail.state)) THEN "sent" ELSE "paused")
    /\ UNCHANGED unchangedByTail

\* handle_log_tail_mode: space, k, j, ctrl+u, ctrl+d, g, G, Esc.
LogKeyPause ==
    /\ IsSome(tail.state)
    /\ tail' = [tail EXCEPT !.state = Some(toggle_log_tail_pause(Unwrap(tail.state)))]
    /\ UNCHANGED unchangedByTail

LogKeyUp(amount) ==
    /\ IsSome(tail.state)
    /\ tail.keys < MaxKeys
    /\ tail' = [tail EXCEPT !.state = Some(log_tail_scroll_up(Unwrap(tail.state), amount)),
                            !.keys = @ + 1]
    /\ UNCHANGED unchangedByTail

LogKeyDown(amount) ==
    /\ IsSome(tail.state)
    /\ tail.keys < MaxKeys
    /\ tail' = [tail EXCEPT !.state = Some(log_tail_scroll_down(Unwrap(tail.state), amount)),
                            !.keys = @ + 1]
    /\ UNCHANGED unchangedByTail

LogKeyTop ==
    /\ IsSome(tail.state)
    /\ tail' = [tail EXCEPT !.state = Some(log_tail_scroll_to_top(Unwrap(tail.state)))]
    /\ UNCHANGED unchangedByTail

LogKeyBottom ==
    /\ IsSome(tail.state)
    /\ tail' = [tail EXCEPT !.state = Some(log_tail_scroll_to_bottom(Unwrap(tail.state)))]
    /\ UNCHANGED unchangedByTail

LogKeyExit ==
    /\ IsSome(tail.state)
    /\ tail' = [tail EXCEPT !.state = None, !.request = None, !.last = "none"]
    /\ UNCHANGED unchangedByTail

\* A second passes.
TailTick ==
    /\ tail.clock < MaxTailClock
    /\ tail' = [tail EXCEPT !.clock = @ + 1]
    /\ UNCHANGED unchangedByTail

NextLogTail ==
    \/ EnterLogTail
    \/ PollLogsIfTailing
    \/ PollLogEvents
    \/ LogKeyPause
    \/ \E amount \in {1, 10} : LogKeyUp(amount)
    \/ \E amount \in {1, 10} : LogKeyDown(amount)
    \/ LogKeyTop
    \/ LogKeyBottom
    \/ LogKeyExit
    \/ TailTick

SpecLogTail == InitLogTail /\ [][NextLogTail]_vars

\* ======================================================================
\* Properties
\* ======================================================================
InCall(t) == pc[t] # "idle"
Returned(t) == pc[t] = "done"
Last(q) == q[Len(q)]

\* The sources of the chain that apply to profile p, in the order of the spec.
Applicable(p) ==
    IF p = DEFAULT THEN << "env", "credentials_file", "config_file", "imds" >>
    ELSE << "credentials_file", "config_file" >>

\* What a source other than the metadata service answers in the present world.
Answer(name, p) ==
    CASE name = "env" -> load_from_env(env)
      [] name = "credentials_file" -> load_from_credentials_file(env, home, fs, p)
      [] name = "config_file" -> load_from_config_file(env, home, fs, p)

CREDENTIAL_VARIABLES ==
    { "AWS_ACCESS_KEY_ID", "AWS_SECRET_ACCESS_KEY", "AWS_SESSION_TOKEN" }
WithoutCredentialVariables(e) == [x \in DOMAIN e \ CREDENTIAL_VARIABLES |-> e[x]]

\* The result for a profile other than "default", from the two files alone.
FromFilesOnly(p) ==
    LET e == WithoutCredentialVariables(env)
        c == load_from_credentials_file(e, home, fs, p)
        g == load_from_config_file(e, home, fs, p)
    IN  IF c.ok THEN c ELSE IF g.ok THEN g ELSE NotFound(p)

EntryOf(t) ==
    Some(CachedImdsCredentials(Unwrap(fetched[t]).credentials,
                               Unwrap(fetched[t]).expiration))

OnNetwork(t) == pc[t] \in {"token_wait", "role_wait", "creds_wait"}
HoldsGuard(t) == pc[t] \in {"cache_check", "store_locked", "stored"}

\* C3: load_from_imds leaves its cache check by returning the cached
\* credentials, with no request sent, exactly when an entry exists whose
\* expiration is strictly more than IMDS_REFRESH_BUFFER after the present;
\* otherwise it goes on to the fetch.
C3_CachedIffStrictlyFresh ==
    [][ \A t \in Callers :
          (pc[t] = "cache_check" /\ pc'[t] # "cache_check") =>
              LET beyond == IF IsSome(cache) THEN Unwrap(cache).expiration - now ELSE 0
                  hit == /\ pc'[t] = "done"
                         /\ IsSome(cache)
                         /\ result'[t] = Some(Ok(Unwrap(cache).credentials))
                         /\ reqs'[t] = << >>
              IN  /\ hit <=> (IsSome(cache) /\ beyond > IMDS_REFRESH_BUFFER)
                  /\ ~hit => (pc'[t] = "token" /\ result'[t] = None)
      ]_vars

\* C3 witness: a caller is fetching although the cache holds an entry that
\* expires exactly IMDS_REFRESH_BUFFER from now.
C3_Witness ==
    \E t \in Callers :
        /\ pc[t] = "token"
        /\ IsSome(cache)
        /\ Unwrap(cache).expiration = now + IMDS_REFRESH_BUFFER

\* C4: the cache mutex is held only around the read (cache_check) and the
\* write (store_locked, stored) of the entry; no caller holds it while one of
\* its IMDS requests is in progress.
C4_NoRequestUnderLock ==
    /\ lock \in Callers \cup {0}
    /\ \A t \in Callers :
        /\ lock = t <=> HoldsGuard(t)
        /\ OnNetwork(t) => lock # t

\* C4 witness: one caller waits for the metadata service while the other
\* holds the mutex to read the cache.
C4_Witness ==
    \E t \in Callers, u \in Callers :
        /\ t # u
        /\ OnNetwork(t)
        /\ lock = u
        /\ pc[u] = "cache_check"

\* C5: every change of the cache installs, under the mutex, the credentials
\* and the expiration of one and the same fetch; neither field is ever
\* changed on its own.
C5_WholeEntryWrites ==
    [][ cache' # cache =>
          \E t \in Callers :
              /\ lock = t
              /\ pc[t] = "store_locked"
              /\ IsSome(fetched[t])
              /\ cache' = EntryOf(t)
      ]_vars

\* C5 witness: a caller has just replaced the entry of another caller's
\* fetch, which had other credentials and another expiration.
C5_Witness ==
    \E t \in Callers, u \in Callers :
        /\ t # u
        /\ pc[u] = "stored"
        /\ Returned(t) /\ IsSome(fetched[t])
        /\ Unwrap(fetched[t]).credentials # Unwrap(fetched[u]).credentials
        /\ Unwrap(fetched[t]).expiration # Unwrap(fetched[u]).expiration
        /\ cache = EntryOf(u)

\* C6: refreshes are not coalesced.  A caller that is past a failed cache
\* check returns only after its own three requests, and returns the
\* credentials of its own fetch; the cache always holds the entry of the
\* caller that wrote last.
C6_LastWriterWins ==
    /\ cache = IF IsSome(lastWrite)
               THEN Some(CachedImdsCredentials(Unwrap(lastWrite).credentials,
                                               Unwrap(lastWrite).expiration))
               ELSE None
    /\ \A t \in Callers :
        /\ pc[t] \in {"store", "store_locked", "stored"} =>
            (IsSome(fetched[t]) /\ Len(reqs[t]) = 3)
        /\ (Returned(t) /\ reqs[t] # << >>) =>
            IF IsSome(fetched[t])
            THEN /\ Len(reqs[t]) = 3
                 /\ result[t] = Some(Ok(Unwrap(fetched[t]).credentials))
            ELSE ~Unwrap(result[t]).ok

\* C6 witness: two fetches overlap; one caller has written its entry and the
\* other, holding different credentials of its own fetch, is about to
\* overwrite it.
C6_Witness ==
    \E t \in Callers, u \in Callers :
        /\ t # u
        /\ pc[u] = "stored"
        /\ pc[t] = "store"
        /\ Unwrap(fetched[t]).credentials # Unwrap(fetched[u]).credentials
        /\ Unwrap(lastWrite).by = u

\* C7: once fetch_imds_credentials has written (and until it drops the
\* guard and returns), the cache holds exactly the credentials it is about
\* to return and the expiration of its fetch; a fetch that returned Ok has
\* made that write.
C7_StoredBeforeReturn ==
    \A t \in Callers :
        /\ pc[t] = "stored" =>
            /\ cache = EntryOf(t)
            /\ Unwrap(lastWrite).by = t
        /\ (Returned(t) /\ IsSome(fetched[t])) =>
            /\ IsSome(cache)
            /\ result[t] = Some(Ok(Unwrap(fetched[t]).credentials))
            /\ Last(consulted[t]) = Source("imds", Ok(Unwrap(fetched[t]).credentials))

\* C7 witness: a fetch has overwritten an older entry that expired later
\* than its own.
C7_Witness ==
    \E t \in Callers, u \in Callers :
        /\ t # u
        /\ pc[u] = "stored"
        /\ Returned(t) /\ IsSome(fetched[t])
        /\ Unwrap(fetched[t]).expiration > Unwrap(fetched[u]).expiration
        /\ Unwrap(fetched[t]).at < Unwrap(fetched[u]).at
        /\ Unwrap(cache).expiration = Unwrap(fetched[u]).expiration

\* The credential document of a caller whose third exchange returned one.
GotDocument(t) ==
    /\ Len(resps[t]) = 3
    /\ resps[t][3].send = "ok"
    /\ IsSuccess(resps[t][3].status)
    /\ resps[t][3].body.ok
DocumentOf(t) == resps[t][3].body.val
IsString(doc, field) == field \in DOMAIN doc /\ doc[field].type = "string"

\* The document's Expiration is missing (or no string), unparseable, or not
\* after the instant `clock`.
NoUsableExpiration(doc, clock) ==
    \/ ~IsString(doc, "Expiration")
    \/ doc["Expiration"].s \notin DOMAIN Timestamps
    \/ Timestamps[doc["Expiration"].s] <= clock

\* C8: a document that has both keys makes the fetch succeed whatever its
\* Expiration; when the Expiration is missing, unparseable or not after the
\* instant it is looked at, the expiration of the fetch, and of the cache
\* entry it writes, is DEFAULT_VALIDITY after that instant.
C8_DefaultValidity ==
    \A t \in Callers :
        (GotDocument(t) /\ IsString(DocumentOf(t), "AccessKeyId")
                        /\ IsString(DocumentOf(t), "SecretAccessKey")) =>
            /\ IsSome(fetched[t])
            /\ pc[t] \in {"store", "store_locked", "stored", "done"}
            /\ Returned(t) => Unwrap(result[t]).ok
            /\ NoUsableExpiration(DocumentOf(t), Unwrap(fetched[t]).at) =>
                /\ Unwrap(fetched[t]).expiration = Unwrap(fetched[t]).at + DEFAULT_VALIDITY
                /\ pc[t] = "stored" =>
                    Unwrap(cache).expiration = Unwrap(fetched[t]).at + DEFAULT_VALIDITY

\* C8 witness: a document whose Expiration parses but is not after the
\* present has been cached with the default validity.
C8_Witness ==
    \E t \in Callers :
        /\ pc[t] = "stored"
        /\ IsString(DocumentOf(t), "Expiration")
        /\ DocumentOf(t)["Expiration"].s \in DOMAIN Timestamps
        /\ Timestamps[DocumentOf(t)["Expiration"].s] <= Unwrap(fetched[t]).at
        /\ Unwrap(cache).expiration = Unwrap(fetched[t]).at + DEFAULT_VALIDITY

\* The i-th exchange of a fetch did not yield what the next step needs.
ExchangeFailed(r, i) ==
    \/ r.send # "ok"
    \/ r.status < 200 \/ r.status > 299
    \/ ~r.body.ok
    \/ i = 2 /\ Trim(r.body.val) = << >>
    \/ i = 3 /\ ~(IsString(r.body.val, "AccessKeyId")
                  /\ IsString(r.body.val, "SecretAccessKey"))

\* C9: the requests of a fetch are, in this order, the token request, the
\* role-name request and the credential-document request; each is sent only
\* after the exchange before it succeeded (a 2xx status; for the last, also a
\* role name that is not empty once trimmed); the second and third carry the
\* token the first returned, the third names the trimmed role; and a failed
\* exchange ends the call with an error and no further request.
C9_ThreeStepProtocol ==
    \A t \in Callers :
        LET n == Len(reqs[t])
            m == Len(resps[t])
        IN  /\ n <= 3 /\ m <= n /\ n <= m + 1
            /\ n >= 1 => reqs[t][1] = TokenRequest
            /\ n >= 2 =>
                /\ ~ExchangeFailed(resps[t][1], 1)
                /\ reqs[t][2].method = "GET"
                /\ reqs[t][2].url =
                       << "latest", "meta-data", "iam", "security-credentials", << >> >>
                /\ reqs[t][2].header =
                       Header("X-aws-ec2-metadata-token", resps[t][1].body.val)
            /\ n >= 3 =>
                /\ ~ExchangeFailed(resps[t][2], 2)
                /\ reqs[t][3].method = "GET"
                /\ reqs[t][3].url =
                       << "latest", "meta-data", "iam", "security-credentials",
                          Trim(resps[t][2].body.val) >>
                /\ reqs[t][3].header =
                       Header("X-aws-ec2-metadata-token", resps[t][1].body.val)
            /\ \A i \in 1 .. m :
                ExchangeFailed(resps[t][i], i) =>
                    /\ n = i
                    /\ Returned(t)
                    /\ ~Unwrap(result[t]).ok
                    /\ ~Last(consulted[t]).outcome.ok

\* C9 witness: a fetch has run all three exchanges, the role name having
\* needed trimming.
C9_Witness ==
    \E t \in Callers :
        /\ pc[t] = "store"
        /\ Len(reqs[t]) = 3
        /\ resps[t][2].body.val # Trim(resps[t][2].body.val)
        /\ reqs[t][3].url[5] = << "role" >>
        /\ reqs[t][3].header.value = TokenFor(t)

\* C10: load_credentials returns an error exactly when every source that
\* applies to the profile has failed (environment and instance metadata
\* apply to "default" only), and the error names the profile asked for.
C10_ErrorIffAllFail ==
    \A t \in Callers :
        Returned(t) =>
            LET r == Unwrap(result[t])
                p == profile[t]
                imdsFailed == /\ Len(consulted[t]) = 4
                              /\ consulted[t][4].source = "imds"
                              /\ ~consulted[t][4].outcome.ok
            IN  /\ ~r.ok <=>
                    /\ p = DEFAULT => ~load_from_env(env).ok
                    /\ ~load_from_credentials_file(env, home, fs, p).ok
                    /\ ~load_from_config_file(env, home, fs, p).ok
                    /\ p = DEFAULT => imdsFailed
                /\ ~r.ok => r.err = Error("No credentials found for profile", p)

\* C10 witness: profile dev, found in neither file, ends in the error that
\* names dev.
C10_Witness ==
    \E t \in Callers :
        /\ Returned(t)
        /\ profile[t] = << "dev" >>
        /\ Len(consulted[t]) = 2
        /\ result[t] = Some(Err(Error("No credentials found for profile", << "dev" >>)))

\* The positions of a caller inside the source `name`.
PositionsOf(name) ==
    IF name = "imds"
    THEN {"imds", "cache_check", "token", "token_wait", "role", "role_wait",
          "creds", "creds_wait", "store", "store_locked", "stored"}
    ELSE {name}

\* C11 (as the spec states it): when load_credentials fails, the error it
\* returns is the failure of the last source it consulted.
C11_LastFailureSurfaced ==
    \A t \in Callers :
        (Returned(t) /\ ~Unwrap(result[t]).ok) =>
            Unwrap(result[t]).err = Last(consulted[t]).outcome.err

\* C11 (amended): a source that fails and is not the last one applicable is
\* followed by the next source, never by a return; when the last source has
\* failed too, load_credentials returns its own "No credentials found"
\* error naming the profile, and the failure of the last source is dropped.
C11_FallThroughThenNotFound ==
    \A t \in Callers :
        LET c == consulted[t]
            chain == Applicable(profile[t])
        IN  InCall(t) =>
            /\ \A i \in 1 .. Len(c) :
                (~c[i].outcome.ok /\ i < Len(chain)) =>
                    \/ Len(c) > i
                    \/ Len(c) = i /\ pc[t] \in PositionsOf(chain[i + 1])
            /\ (Returned(t) /\ ~Unwrap(result[t]).ok) =>
                /\ Len(c) = Len(chain)
                /\ ~Last(c).outcome.ok
                /\ result[t] = Some(NotFound(profile[t]))
                /\ Unwrap(result[t]).err # Last(c).outcome.err

\* C11 witness: for "default" the credentials file lacks
\* aws_secret_access_key, the config file and the metadata service were
\* tried after it, and the error returned is not the metadata service's.
C11_Witness ==
    \E t \in Callers :
        /\ Returned(t)
        /\ Len(consulted[t]) = 4
        /\ consulted[t][2] =
               Source("credentials_file",
                      Err(Error("aws_secret_access_key not found for profile", DEFAULT)))
        /\ consulted[t][3].source = "config_file"
        /\ ~consulted[t][4].outcome.ok
        /\ result[t] = Some(NotFound(DEFAULT))

IsSet(name) == name \in DOMAIN env

\* The outcome of the environment source in a call that consulted it.
EnvOutcome(t) == consulted[t][1].outcome

\* C12 (as the spec states it): the environment source succeeds exactly
\* when both AWS_ACCESS_KEY_ID and AWS_SECRET_ACCESS_KEY are set.
C12_SucceedsIffBothSet ==
    \A t \in Callers :
        (InCall(t) /\ profile[t] = DEFAULT /\ Len(consulted[t]) >= 1) =>
            (EnvOutcome(t).ok <=>
                (IsSet("AWS_ACCESS_KEY_ID") /\ IsSet("AWS_SECRET_ACCESS_KEY")))

\* C12 (amended): the environment source succeeds exactly when both
\* AWS_ACCESS_KEY_ID and AWS_SECRET_ACCESS_KEY are set to valid Unicode; the
\* credentials carry their values, with the session token None when
\* AWS_SESSION_TOKEN is unset; when the source fails, resolution of
\* "default" goes on to the credentials file.
C12_SucceedsIffBothSetUnicode ==
    \A t \in Callers :
        (InCall(t) /\ profile[t] = DEFAULT /\ Len(consulted[t]) >= 1) =>
            LET usable(name) == IsSet(name) /\ IsUnicode(env[name])
                both == usable("AWS_ACCESS_KEY_ID") /\ usable("AWS_SECRET_ACCESS_KEY")
            IN  /\ consulted[t][1].source = "env"
                /\ EnvOutcome(t).ok <=> both
                /\ both =>
                    /\ EnvOutcome(t).val.access_key_id = env["AWS_ACCESS_KEY_ID"]
                    /\ EnvOutcome(t).val.secret_access_key = env["AWS_SECRET_ACCESS_KEY"]
                    /\ ~IsSet("AWS_SESSION_TOKEN") =>
                           EnvOutcome(t).val.session_token = None
                    /\ usable("AWS_SESSION_TOKEN") =>
                           EnvOutcome(t).val.session_token =
                               Some(env["AWS_SESSION_TOKEN"])
                /\ ~both =>
                    \/ Len(consulted[t]) = 1 /\ pc[t] = "credentials_file"
                    \/ Len(consulted[t]) > 1 /\ consulted[t][2].source = "credentials_file"

\* C12 witness: with both variables set and no AWS_SESSION_TOKEN, a call for
\* "default" consulted the environment alone and returned its keys with no
\* session token.
C12_Witness ==
    \E t \in Callers :
        /\ Returned(t)
        /\ IsSet("AWS_ACCESS_KEY_ID") /\ IsSet("AWS_SECRET_ACCESS_KEY")
        /\ ~IsSet("AWS_SESSION_TOKEN")
        /\ Len(consulted[t]) = 1
        /\ result[t] = Some(Ok(Credentials(<< "AKenv" >>, << "SKenv" >>, None)))

\* C13: nothing read from the environment or the two INI files outlives a
\* call: whatever the process started with and whatever earlier calls saw,
\* every answer of the environment, credentials-file and config-file sources
\* in a call is the one computed from the environment and files as they are
\* during that call, and so is the result when one of them succeeds.
C13_RereadOnEveryCall ==
    \A t \in Callers :
        InCall(t) =>
            /\ \A i \in 1 .. Len(consulted[t]) :
                consulted[t][i].source # "imds" =>
                    consulted[t][i].outcome =
                        Answer(consulted[t][i].source, profile[t])
            /\ (Returned(t) /\ Last(consulted[t]).source # "imds"
                    /\ Last(consulted[t]).outcome.ok) =>
                result[t] = Some(Answer(Last(consulted[t]).source, profile[t]))

\* C13 witness: after an edit of the environment, a call for "default"
\* returned credentials the environment at startup could not have given.
C13_Witness ==
    \E t \in Callers :
        /\ Returned(t)
        /\ calls >= 2
        /\ startup.env # env
        /\ Len(consulted[t]) = 1
        /\ Unwrap(result[t]).ok
        /\ ~load_from_env(startup.env).ok
        /\ result[t] = Some(load_from_env(env))

\* ---------------------------------------------------------------- INI files
\* The kinds of line, read off the characters of the trimmed line.
Skipped(l) == Trim(l) = << >> \/ Trim(l)[1] \in {"#", ";"}
IsHeader(l) == ~Skipped(l) /\ Trim(l)[1] = "[" /\ Trim(l)[Len(Trim(l))] = "]"
IsKeyValue(l) == ~Skipped(l) /\ ~IsHeader(l) /\ \E i \in 1 .. Len(l) : l[i] = "="
\* The text between the brackets of a header.
Inside(l) == Trim(SubSeq(Trim(l), 2, Len(Trim(l)) - 1))

\* The line just read, and whether a header is among the lines read.
LineRead == ini.content[ini.pos]
HeaderRead == \E i \in 1 .. ini.pos : IsHeader(ini.content[i])

\* A config file that is a [profile dev] header followed by the two keys,
\* with nothing else but lines that carry no key.
PlainDevFile(content) ==
    /\ Len(content) >= 3
    /\ IsHeader(content[1]) /\ Inside(content[1]) = << "profile", " ", "dev" >>
    /\ \A i \in 2 .. Len(content) :
        content[i] \in {LineAccessKey, LineSecretKey, LineNoEquals, LineBlank,
                        LineHash, LineSemicolon}
    /\ \E i \in 2 .. Len(content) : content[i] = LineAccessKey
    /\ \E i \in 2 .. Len(content) : content[i] = LineSecretKey

\* C14: a header "[profile dev]" makes "dev" the current section and adds
\* the key "dev", and no other key, to the sections; load_from_config_file
\* for "dev" on a file whose [profile dev] section holds
\* aws_access_key_id = X and aws_secret_access_key = Y and no session token
\* returns {X, Y, None}.
C14_ProfilePrefixStripped ==
    /\ ( /\ ini.pos >= 1
         /\ IsHeader(LineRead)
         /\ Inside(LineRead) = << "profile", " ", "dev" >> ) =>
            /\ ini.current_section = << "dev" >>
            /\ << "dev" >> \in DOMAIN ini.sections
            /\ DOMAIN ini.sections = DOMAIN ini.previous.sections \cup {<< "dev" >>}
            /\ ini.current_section # << "profile", " ", "dev" >>
    /\ ( /\ IsSome(ini.loaded)
         /\ ini.profile = << "dev" >>
         /\ PlainDevFile(ini.content) ) =>
            ini.loaded = Some(Ok(Credentials(<< "X" >>, << "Y" >>, None)))

\* C14 witness: the file is [profile dev] with the two keys and "dev" was
\* resolved to {X, Y, None}.
C14_Witness ==
    /\ ini.content = << HeaderProfileDev, LineAccessKey, LineSecretKey >>
    /\ ini.profile = << "dev" >>
    /\ DOMAIN ini.sections = {<< "dev" >>}
    /\ ini.loaded = Some(Ok(Credentials(<< "X" >>, << "Y" >>, None)))

\* The position of the first header among the lines read (with HeaderRead).
FirstHeader ==
    CHOOSE h \in 1 .. ini.pos :
        IsHeader(ini.content[h]) /\ \A i \in 1 .. h - 1 : ~IsHeader(ini.content[i])

\* C15: as long as no section header has been read the sections stay empty,
\* whatever key = value lines were read; and once a header has been read the
\* sections are those of the file without the lines before its first header.
C15_DiscardedBeforeHeader ==
    /\ ~HeaderRead =>
        /\ ini.sections = << >>
        /\ ini.current_section = << >>
    /\ HeaderRead =>
        ini.sections = parse_ini_file(SubSeq(ini.content, FirstHeader, ini.pos))

\* C15 witness: a key = value line came before the first header, and the
\* only section of the file is the empty section of that header.
C15_Witness ==
    /\ ini.content = << LineAccessKey, HeaderDev >>
    /\ ini.pos = 2
    /\ DOMAIN ini.sections = {<< "dev" >>}
    /\ DOMAIN ini.sections[<< "dev" >>] = { }

\* C16: a key = value line read inside a section stores, under the text
\* before its first '=' trimmed, the whole text after that '=' trimmed,
\* further '=' included; it changes nothing else.
C16_SplitAtFirstEquals ==
    ( /\ ini.pos >= 1
      /\ IsKeyValue(LineRead)
      /\ ini.previous.current_section # << >> ) =>
        LET line == Trim(LineRead)
            i == CHOOSE k \in 1 .. Len(line) :
                     line[k] = "=" /\ \A j \in 1 .. k - 1 : line[j] # "="
            key == Trim(SubSeq(line, 1, i - 1))
            value == Trim(SubSeq(line, i + 1, Len(line)))
            sec == ini.previous.current_section
            old == ini.previous.sections
        IN  /\ ini.current_section = sec
            /\ sec \in DOMAIN ini.sections
            /\ key \in DOMAIN ini.sections[sec]
            /\ ini.sections[sec][key] = value
            /\ \A s2 \in DOMAIN ini.sections :
                \A k2 \in DOMAIN ini.sections[s2] :
                    (s2 # sec \/ k2 # key) =>
                        /\ s2 \in DOMAIN old
                        /\ k2 \in DOMAIN old[s2]
                        /\ ini.sections[s2][k2] = old[s2][k2]

\* C16 witness: the line "k = a=b" was read in section dev, which now holds
\* k with the value "a=b".
C16_Witness ==
    /\ ini.pos >= 2
    /\ LineRead = LineTwoEquals
    /\ ini.current_section = << "dev" >>
    /\ ini.sections[<< "dev" >>][<< "k" >>] = << "a", "=", "b" >>

\* ------------------------------------------------------------ the terminal
\* C17: in read-only mode execute_action is never called, whatever keys are
\* pressed in whatever mode: the confirm dialog is never entered, no action
\* is pending, and the dialog that opens instead is the warning that the
\* operation is not supported.
C17_ReadonlyNeverExecutes ==
    app.readonly =>
        /\ executed = { }
        /\ app.mode # "Confirm"
        /\ app.pending_action = None
        /\ app.mode = "Warning" => app.warning_message = Some(READONLY_MESSAGE)

\* C17 witness: in read-only mode a key bound to an action was pressed on an
\* item with an id, and the warning is on screen.
C17_Witness ==
    /\ app.readonly
    /\ IsSome(SelectedId(app))
    /\ app.mode = "Warning"
    /\ app.warning_message = Some(READONLY_MESSAGE)

\* C19: a refresh that succeeds while a page is on screen shows that same
\* page again and leaves pagination.current_page as it was.
C19_RefreshKeepsPage ==
    (op.name = "refresh_current" /\ op.ok /\ op.displayed # 0) =>
        /\ Displayed(app) = op.displayed
        /\ app.pagination.current_page = op.current_page

\* C20: after the first load and any number of next_page and prev_page
\* calls that all succeeded, pagination.current_page is the position of the
\* page on screen, and a prev_page shows the page before the one that was
\* on screen.
C20_PageNumberIsPosition ==
    op.paging =>
        /\ app.pagination.current_page = Displayed(app)
        /\ op.name = "prev_page" => Displayed(app) = op.displayed - 1

\* C24: when execute_action failed, the "Action failed" message is in
\* error_message when the key handler returns.
C24_ActionFailureShown ==
    (IsSome(op.call) /\ Unwrap(op.call).failed) =>
        app.error_message = Some("Action failed")

\* The action of the current resource that calls `sdk_method` requires
\* confirmation.
RequiresConfirm(sdk_method) ==
    \E action \in ResourceActions :
        action.sdk_method = sdk_method /\ action.requires_confirm

\* The last execute_action call, when it was of an action that requires
\* confirmation, was made from the Confirm dialog on an affirmative answer.
AffirmedCall ==
    (IsSome(op.call) /\ RequiresConfirm(Unwrap(op.call).sdk_method)) =>
        /\ Unwrap(op.call).mode = "Confirm"
        /\ \/ Unwrap(op.call).key = "y"
           \/ Unwrap(op.call).key = "Enter" /\ Unwrap(op.call).selected_yes

\* Enter, y, Y, n, N or Esc in the Confirm dialog.
ConfirmAnswered ==
    \/ \E action_fails, fetch_fails \in BOOLEAN : KeyConfirmEnter(action_fails, fetch_fails)
    \/ \E action_fails, fetch_fails \in BOOLEAN : KeyConfirmYes(action_fails, fetch_fails)
    \/ KeyConfirmNo

\* Enter while No is selected, n, N or Esc.
ConfirmDeclined ==
    \/ KeyConfirmNo
    \/ /\ \E action_fails, fetch_fails \in BOOLEAN :
              KeyConfirmEnter(action_fails, fetch_fails)
       /\ ~(IsSome(app.pending_action) /\ Unwrap(app.pending_action).selected_yes)

\* C25: an action that requires confirmation is executed only from the
\* Confirm dialog on an affirmative answer (y, Y, or Enter while Yes is
\* selected); Enter while No is selected, n, N and Esc execute nothing; and
\* every answer returns to Normal mode with pending_action cleared.
C25_ExecutedOnlyWhenAffirmed ==
    /\ []AffirmedCall
    /\ [][/\ ConfirmAnswered => (app'.mode = "Normal" /\ app'.pending_action = None)
          /\ ConfirmDeclined => UNCHANGED << executed, op >>]_vars

\* C25 witness: terminate_instance, whose dialog opens on No, was executed
\* by Enter after the answer was moved to Yes, and the dialog is closed.
C25_Witness ==
    /\ IsSome(op.call)
    /\ Unwrap(op.call).sdk_method = "terminate_instance"
    /\ Unwrap(op.call).mode = "Confirm"
    /\ Unwrap(op.call).key = "Enter"
    /\ Unwrap(op.call).selected_yes
    /\ [service |-> SERVICE, sdk_method |-> "terminate_instance", resource_id |-> "i-1"]
            \in executed
    /\ app.mode = "Normal"
    /\ app.pending_action = None

\* ---------------------------------------------------------- the navigation
Navigations == {"navigate_to_resource", "navigate_to_sub_resource", "navigate_back"}

\* C21: each of navigate_to_resource, navigate_to_sub_resource and
\* navigate_back, when it navigates, fetches with no page token and leaves
\* current_page = 1 and an empty token_stack: the list shown afterwards is
\* the first page of the target resource, or empty when the fetch failed.
C21_NavigationShowsFirstPage ==
    op.name \in Navigations =>
        /\ op.sent = None
        /\ app.pagination.current_page = 1
        /\ app.pagination.token_stack = << >>
        /\ app.items = IF op.ok
                       THEN PageItems(app.current_resource_key, app.region, 1)
                       ELSE << >>

\* C21 witness: from the second page of the buckets, with tokens kept, the
\* objects of a bucket were entered and their first page is on screen.
C21_Witness ==
    /\ op.name = "navigate_to_sub_resource"
    /\ op.ok
    /\ op.current_page = 2
    /\ op.displayed = 2
    /\ app.current_resource_key = "s3-objects"
    /\ app.items = PageItems("s3-objects", app.region, 1)
    /\ app.pagination.current_page = 1

\* C22: after a region switch and the refresh that follows it, no page
\* token was sent and the list shown is the first page of the resource in
\* the new region.
C22_SwitchShowsFirstPage ==
    op.name = "switch_region" =>
        /\ op.sent = None
        /\ op.ok => app.items = PageItems(app.current_resource_key, app.region, 1)

\* C23: when a fetch failed, items and filtered_items are empty, selected
\* is 0, the pagination is the default one, error_message is set and
\* loading is false.
C23_FailedFetchLeavesNothing ==
    ~op.ok =>
        /\ app.items = << >>
        /\ app.filtered_items = << >>
        /\ app.selected = 0
        /\ app.pagination = PaginationDefault
        /\ IsSome(app.error_message)
        /\ ~app.loading

\* C23 witness: a page was on screen under a filter, on page 2, and the
\* next fetch failed.
C23_Witness ==
    /\ ~op.ok
    /\ op.displayed # 0
    /\ op.current_page = 2
    /\ app.filter_text # << >>
    /\ app.error_message = Some("AccessDenied")
    /\ app.filtered_items = << >>

\* C28: a navigate_back right after a navigate_to_sub_resource that
\* entered the sub-resource restores current_resource_key, parent_context
\* and navigation_stack; every navigate_back leaves selected = 0 and the
\* filter cleared.
C28_SubResourceRoundTrip ==
    /\ []((op.name = "navigate_back" /\ IsSome(op.from)) =>
              NavState(app) = Unwrap(op.from))
    /\ [][(op' # op /\ op'.name = "navigate_back") =>
              /\ app'.selected = 0
              /\ app'.filter_text = << >>
              /\ ~app'.filter_active]_vars

\* C28 witness: a folder was entered from the objects of a bucket, which
\* pushed the bucket's context, and left again.
C28_Witness ==
    /\ op.name = "navigate_back"
    /\ IsSome(op.from)
    /\ IsSome(Unwrap(op.from).parent_context)
    /\ Unwrap(op.from).current_resource_key = "s3-objects"
    /\ NavState(app) = Unwrap(op.from)

\* ---------------------------------------------------------- execute_action
\* C26: execute_action returns Ok only if it sent a request and the
\* request succeeded; in every other case it returns an error.
C26_OkOnlyAfterRequest ==
    IsSome(dispatched) =>
        (Unwrap(dispatched).returned.result.ok <=>
            /\ Unwrap(dispatched).returned.sent # << >>
            /\ ~Unwrap(dispatched).request_fails)

\* --------------------------------------------------------- list extraction
\* C27 as claimed: the number of extracted items is the number of elements
\* in the response, whatever the elements are.
C27_AllElementsExtracted ==
    IsSome(extracted) =>
        Len(Unwrap(extracted).list) = Len(Unwrap(extracted).elements)

HasChildren(e) == e.children # << >>

\* C27: when every element of the list has child elements, the helpers
\* return the n normalized elements, in order, for n = 0, n = 1 (the lone
\* element normalized to a bare mapping) and n >= 2 (a sequence); a lone
\* element with text only, normalized to a bare string, is not extracted.
C27_MappingsExtracted ==
    IsSome(extracted) =>
        LET elements == Unwrap(extracted).elements
            list == Unwrap(extracted).list
        IN  /\ (\A i \in 1 .. Len(elements) : HasChildren(elements[i])) =>
                   list = [i \in 1 .. Len(elements) |-> normalize(elements[i])]
            /\ (Len(elements) = 1 /\ ~HasChildren(elements[1])) => list = << >>

\* C27 witness: extract_ec2_list on a set with one item that has child
\* elements returned that item.
C27_Witness ==
    /\ IsSome(extracted)
    /\ Unwrap(extracted).helper = "extract_ec2_list"
    /\ Len(Unwrap(extracted).elements) = 1
    /\ HasChildren(Unwrap(extracted).elements[1])
    /\ Len(Unwrap(extracted).list) = 1
    /\ Unwrap(extracted).list[1].type = "object"

\* ------------------------------------------------------------ the log tail
\* C29: the buffer of the log tail never holds more than 1000 events, and
\* it holds the most recent of the events received, at most 1000, in the
\* order they arrived.
C29_KeepsMostRecent ==
    IsSome(tail.state) =>
        LET events == Unwrap(tail.state).events
            n == IF tail.received < MAX_LOG_EVENTS THEN tail.received ELSE MAX_LOG_EVENTS
        IN  /\ Len(events) <= MAX_LOG_EVENTS
            /\ events = [i \in 1 .. n |-> tail.received - n + i]

\* C29 witness: more than 1000 events were received, the oldest were
\* dropped and 1000 are held.
C29_Witness ==
    /\ IsSome(tail.state)
    /\ tail.received > MAX_LOG_EVENTS
    /\ Len(Unwrap(tail.state).events) = MAX_LOG_EVENTS
    /\ Unwrap(tail.state).events[1] = tail.received - MAX_LOG_EVENTS + 1

\* C30: while the tail is paused, a call of poll_log_events or of
\* poll_logs_if_tailing sends no request and leaves the state of the tail
\* (events, scroll, next_forward_token, error, last_poll) as it was.
C30_PausedPollIsNoOp ==
    [][(tail'.calls # tail.calls /\ IsSome(tail.state) /\ Unwrap(tail.state).paused) =>
          /\ tail'.state = tail.state
          /\ tail'.requests = tail.requests
          /\ tail'.received = tail.received]_vars

\* C30 witness: a poll was called while the tail was paused with events on
\* screen, two seconds or more after the last poll.
C30_Witness ==
    /\ IsSome(tail.state)
    /\ Unwrap(tail.state).paused
    /\ tail.last = "paused"
    /\ Unwrap(tail.state).events # << >>
    /\ tail.clock - Unwrap(tail.state).last_poll >= LOG_POLL_INTERVAL

\* C31: a poll whose request fails sets the error of the log tail and leaves
\* the collected events and the next_forward_token as they were; the request
\* that follows a failed one carries the same token; a poll whose request
\* succeeds clears the error.
C31_FailedPollKeepsPlace ==
    [][(tail'.requests # tail.requests) =>
          LET request == Unwrap(tail'.request)
              after == Unwrap(tail'.state)
          IN  /\ ~request.ok =>
                    /\ IsSome(after.error)
                    /\ IsSome(tail.state) =>
                           /\ after.events = Unwrap(tail.state).events
                           /\ after.next_forward_token
                                  = Unwrap(tail.state).next_forward_token
                    /\ tail.state = None =>
                           /\ after.events = << >>
                           /\ after.next_forward_token = None
              /\ request.ok => after.error = None
              /\ (IsSome(tail.request) /\ ~Unwrap(tail.request).ok) =>
                    request.next_forward_token
                        = Unwrap(tail.request).next_forward_token]_vars

\* C31 witness: with events collected and a token held, a request failed and
\* the request after it, sent with that token, succeeded and cleared the
\* error.
C31_Witness ==
    /\ IsSome(tail.state)
    /\ IsSome(tail.request)
    /\ Unwrap(tail.request).ok
    /\ Unwrap(tail.request).after_error
    /\ IsSome(Unwrap(tail.request).next_forward_token)
    /\ Unwrap(tail.state).error = None
    /\ Unwrap(tail.state).events # << >>

====
